---- MODULE Spec2Model ----
(***************************************************************************)
(* posthook-python: webhook signature verification and delivery parsing.   *)
(*                                                                         *)
(* The model follows src/src/posthook/_resources/_signatures.py.  A        *)
(* request (body + header mapping) arrives at the integrator's webhook     *)
(* handler, the handler calls SignaturesService.parse_delivery on it, and  *)
(* the call ends either by returning a Delivery or by raising.             *)
(*                                                                         *)
(* Representation of Python values:                                        *)
(*   None               [t |-> "None"]                                      *)
(*   a str              [t |-> "str", v |-> chunks], chunks a sequence of   *)
(*                      strings whose concatenation is the text; a chunk   *)
(*                      is either the single space " " or holds no space   *)
(*   a list             [t |-> "list", v |-> <<element, ...>>]              *)
(*   an int argument    [t |-> "int", v |-> n]                              *)
(*   bytes / str body   [t |-> "bytes" | "text", v |-> string]              *)
(* HMAC-SHA256 is modelled as an ideal keyed hash: its hex digest is the    *)
(* symbolic term over the key and the exact message bytes.                  *)
(***************************************************************************)
EXTENDS Integers, Sequences, FiniteSets, TLC

VARIABLES
    now,            \* the wall clock, int(time.time())
    self_key,       \* SignaturesService._signing_key
    pc,             \* "idle" | "received" | "returned"
    request,        \* the inbound request being handled: body and headers
    call,           \* the arguments of the parse_delivery call and the clock value it read
    result,         \* what the call returned or raised
    threads,        \* the parse_delivery calls running concurrently on the instance
    environ,        \* os.environ: POSTHOOK_API_KEY and POSTHOOK_SIGNING_KEY
    made,           \* how the verifier was constructed, and whether that raised
    http,           \* the SDK's HTTP client: sync or async, _owns_client, the httpx client
    server,         \* the hooks the API server holds
    op,             \* the last hooks operation: arguments, requests sent, outcome
    iter            \* the list_all generator: cursor, requests, pages, hooks yielded

vars == <<now, self_key, pc, request, call, result, threads, environ, made,
          http, server, op, iter>>
hooksVars == <<http, server, op, iter>>

---------------------------------------------------------------------------
(* Bounds of the model *)

Epoch   == 1000     \* the clock value of the initial state
MaxTick == 1        \* the clock advances at most this many seconds
MaxTol  == 1        \* per-call tolerance overrides are 0..MaxTol
MaxHooks == 3       \* the server holds at most this many hooks when listing
MaxPage  == 2       \* list_all is called with page_size in 0..MaxPage

(* _signatures.py:14 *)
DEFAULT_TOLERANCE == 300

---------------------------------------------------------------------------
(* Python values *)

None      == [t |-> "None"]
Str(cs)   == [t |-> "str", v |-> cs]
S1(s)     == Str(<<s>>)
List(xs)  == [t |-> "list", v |-> xs]
PyInt(n)  == [t |-> "int", v |-> n]
Bytes(s)  == [t |-> "bytes", v |-> s]
Text(s)   == [t |-> "text", v |-> s]
NotPassed == [t |-> "default"]

RECURSIVE Flat(_)
(* the text of a chunk sequence *)
Flat(cs) == IF cs = <<>> THEN "" ELSE Head(cs) \o Flat(Tail(cs))

(* Python truthiness of an optional str: None and "" are falsy *)
Truthy(x) == x.t = "str" /\ Flat(x.v) # ""

(* Python's `a or b` on optional strs *)
Or(a, b) == IF Truthy(a) THEN a ELSE b

Abs(n) == IF n < 0 THEN -n ELSE n

---------------------------------------------------------------------------
(* Header names.  A header mapping is a sequence of <<key, value>> entries *)
(* with pairwise distinct keys, in the mapping's iteration order.          *)

(* str.lower() on the header keys the model uses *)
Lower(k) ==
    CASE k \in {"Posthook-Id", "posthook-id", "POSTHOOK-ID", "PostHook-ID"}
            -> "posthook-id"
      [] k \in {"Posthook-Timestamp", "posthook-timestamp", "POSTHOOK-TIMESTAMP",
                "PostHook-TimeStamp"}
            -> "posthook-timestamp"
      [] k \in {"Posthook-Signature", "posthook-signature", "POSTHOOK-SIGNATURE",
                "PostHook-SIGNATURE"}
            -> "posthook-signature"
      [] k = "Content-Type" -> "content-type"

(* Mapping.get(name): the value stored under exactly `name`, else None *)
MappingGet(headers, name) ==
    IF \E i \in 1..Len(headers) : headers[i][1] = name
    THEN headers[CHOOSE i \in 1..Len(headers) : headers[i][1] = name][2]
    ELSE None

(* the value of a header entry as _get_header returns it:                  *)
(* a list gives its first element (None when empty), a scalar gives str()  *)
HeaderValue(val) ==
    CASE val.t = "list" -> (IF val.v # <<>> THEN val.v[1] ELSE None)
      [] val.t = "None" -> S1("None")
      [] OTHER          -> val

(* the lookup by exact key only *)
_get_header_ExactOnly(headers, name) ==
    LET val == MappingGet(headers, name)
    IN  IF val # None THEN HeaderValue(val) ELSE None

(* _get_header: exact-case match first, then the first key equal to `name` *)
(* ignoring case, in iteration order; None when there is none              *)
_get_header(headers, name) ==
    LET val == MappingGet(headers, name)
        hit == {i \in 1..Len(headers) : Lower(headers[i][1]) = Lower(name)}
        first == CHOOSE i \in hit : \A j \in hit : i <= j
    IN  IF val # None THEN HeaderValue(val)
        ELSE IF hit # {} THEN HeaderValue(headers[first][2])
        ELSE None

---------------------------------------------------------------------------
(* Signatures *)

(* hmac.new(key, digestmod=sha256) fed with `msg`, as hexdigest(): the     *)
(* ideal keyed hash, one distinct digest per (key, message)                *)
HmacSha256Hex(key, msg) == "hmac-sha256[" \o key \o "](" \o msg \o ")"

(* mac = hmac.new(key.encode(), digestmod=hashlib.sha256): nothing fed yet *)
HmacNew(key) == [key |-> key, fed |-> ""]

(* mac.update(data): the bytes fed so far, followed by data *)
HmacUpdate(mac, data) == [mac EXCEPT !.fed = @ \o data]

(* mac.hexdigest(): the digest of everything fed, under the mac's key *)
HexDigest(mac) == HmacSha256Hex(mac.key, mac.fed)

(* the signature without the "." between timestamp and body *)
_compute_signature_NoSeparator(key, timestamp, body_bytes) ==
    "v1," \o HmacSha256Hex(key, ToString(timestamp) \o body_bytes)

(* the signature without its "v1," version prefix *)
_compute_signature_NoPrefix(key, timestamp, body_bytes) ==
    HmacSha256Hex(key, (ToString(timestamp) \o ".") \o body_bytes)

(* _compute_signature: "v1," + HMAC fed "<timestamp>." and then the body   *)
_compute_signature(key, timestamp, body_bytes) ==
    LET mac  == HmacNew(key)
        mac1 == HmacUpdate(mac, ToString(timestamp) \o ".")
        mac2 == HmacUpdate(mac1, body_bytes)
    IN  "v1," \o HexDigest(mac2)

(* hmac.compare_digest(a.encode(), b.encode()) *)
_safe_compare(a, b) == a = b

RECURSIVE Split(_)
(* str.split(" "): the texts between single spaces, empty ones included *)
Split(cs) ==
    IF \E i \in 1..Len(cs) : cs[i] = " "
    THEN LET i == CHOOSE i \in 1..Len(cs) :
                      cs[i] = " " /\ \A j \in 1..(i-1) : cs[j] # " "
         IN  <<Flat(SubSeq(cs, 1, i-1))>> \o Split(SubSeq(cs, i+1, Len(cs)))
    ELSE <<Flat(cs)>>

(* the loop leaving after its first candidate *)
Verified_FirstOnly(signatures, expected_sig) ==
    signatures # <<>> /\ _safe_compare(signatures[1], expected_sig)
(* the loop marking any candidate as verified *)
Verified_AnyCandidate(signatures, expected_sig) == signatures # <<>>

(* the loop over the candidate signatures: True at the first match *)
Verified(signatures, expected_sig) ==
    \E i \in 1..Len(signatures) : _safe_compare(signatures[i], expected_sig)

---------------------------------------------------------------------------
(* Request bodies and their JSON reading *)

(* the example body of the key-rotation test, every date field empty *)
ExampleBody ==
    "{\"path\":\"/test\",\"data\":{},\"postAt\":\"\",\"postedAt\":\"\",\"createdAt\":\"\",\"updatedAt\":\"\"}"
EmptyObjectBody == "{}"
DatedBody       == "{\"path\":\"/webhooks/test\",\"postAt\":\"2026-03-01T12:00:00Z\"}"
BadDateBody     == "{\"path\":\"/test\",\"postAt\":\"tomorrow\"}"
ArrayBody       == "[]"
TruncatedBody   == "{\"path\":"
TamperedBody    == ExampleBody \o "extra"
NonAsciiText    == "{\"path\":\"/caf<U+E9>\"}"
NonAsciiBody    == "{\"path\":\"/caf<C3><A9>\"}"

ByteBodies == {ExampleBody, EmptyObjectBody, DatedBody, BadDateBody, ArrayBody,
               TruncatedBody, TamperedBody, NonAsciiBody}
TextBodies == {EmptyObjectBody, NonAsciiText}

(* str.encode("utf-8"): ASCII text keeps its bytes, U+00E9 becomes C3 A9 *)
Utf8Encode(text) ==
    CASE text = NonAsciiText -> NonAsciiBody
      [] text \in ByteBodies -> text

JStr(s)  == [t |-> "str", v |-> <<s>>]
JObj(f)  == [t |-> "object", fields |-> f]
JArr(xs) == [t |-> "array", v |-> xs]

(* json.loads on the bodies of the model: the decoded value, or the error *)
JsonLoads(body_bytes) ==
    CASE body_bytes = ExampleBody ->
            [ok |-> TRUE, value |-> JObj(
                ("path" :> JStr("/test")) @@ ("data" :> JObj(<<>>)) @@
                ("postAt" :> JStr("")) @@ ("postedAt" :> JStr("")) @@
                ("createdAt" :> JStr("")) @@ ("updatedAt" :> JStr("")))]
      [] body_bytes = EmptyObjectBody ->
            [ok |-> TRUE, value |-> JObj(<<>>)]
      [] body_bytes = DatedBody ->
            [ok |-> TRUE, value |-> JObj(
                ("path" :> JStr("/webhooks/test")) @@
                ("postAt" :> JStr("2026-03-01T12:00:00Z")))]
      [] body_bytes = BadDateBody ->
            [ok |-> TRUE, value |-> JObj(
                ("path" :> JStr("/test")) @@ ("postAt" :> JStr("tomorrow")))]
      [] body_bytes = NonAsciiBody ->
            [ok |-> TRUE, value |-> JObj("path" :> JStr("/caf<U+E9>"))]
      [] body_bytes = ArrayBody ->
            [ok |-> TRUE, value |-> JArr(<<>>)]
      [] body_bytes \in {TruncatedBody, TamperedBody} ->
            [ok |-> FALSE, exc |-> "JSONDecodeError"]

(* the lookup giving None for a missing key, whatever the default *)
DictGet_NoneDefault(payload, key, default) ==
    IF key \in DOMAIN payload.fields THEN payload.fields[key] ELSE None

(* dict.get(key, default) *)
DictGet(payload, key, default) ==
    IF key \in DOMAIN payload.fields THEN payload.fields[key] ELSE default

(* datetime.min.replace(tzinfo=timezone.utc) *)
DatetimeMin == "0001-01-01T00:00:00+00:00"

(* the texts datetime.fromisoformat accepts, among those the model uses *)
IsoStems == {"2026-03-01T12:00:00", "2026-03-01T12:00:01", "2026-03-01T12:00:02"}
IsoTexts == {p \o "+00:00" : p \in IsoStems} \cup {"2026-03-01T13:00:01+01:00"}

(* value[:-1] + "+00:00" when value ends with "Z", else value *)
ReplaceZ(text) ==
    LET stems == IsoStems
    IN  IF \E p \in stems : text = p \o "Z"
        THEN (CHOOSE p \in stems : text = p \o "Z") \o "+00:00"
        ELSE text

(* _parse_dt: the datetime, named by its normalised ISO text, or the error *)
_parse_dt(value) ==
    IF value.t = "None" \/ (value.t = "str" /\ Flat(value.v) = "")
          \/ (value.t \in {"object"} /\ DOMAIN value.fields = {})
          \/ (value.t \in {"array"} /\ value.v = <<>>)
    THEN [ok |-> TRUE, dt |-> DatetimeMin]
    ELSE IF value.t # "str" THEN [ok |-> FALSE, exc |-> "AttributeError"]
    ELSE IF ReplaceZ(Flat(value.v)) \in IsoTexts
         THEN [ok |-> TRUE, dt |-> ReplaceZ(Flat(value.v))]
         ELSE [ok |-> FALSE, exc |-> "ValueError"]

(* int(timestamp_str) on the header texts of the model: surrounding        *)
(* whitespace and leading zeros are accepted, anything else is ValueError  *)
IntTexts(n) == {ToString(n), " " \o ToString(n), "0" \o ToString(n)}

---------------------------------------------------------------------------
(* parse_delivery.  The call runs its steps one after the other on a frame *)
(* `env` of local variables; a step that raises sets env.out and ends the  *)
(* call.  `a` holds the arguments: self_key, body, headers, signing_key,   *)
(* tolerance, and the clock value `now` the call reads.                    *)

Running == [kind |-> "running"]
Unset   == [t |-> "unset"]

Raise(kind, cause, message) ==
    [kind |-> kind, cause |-> cause, message |-> message, delivery |-> None]
Return(d) ==
    [kind |-> "Delivery", cause |-> "", message |-> "", delivery |-> d]

(* the locals of a call before any step ran; a local that is not assigned  *)
(* yet holds the empty value of its type                                    *)
Frame ==
    [key |-> "", hook_id |-> "", timestamp_str |-> "", signature |-> <<>>,
     timestamp |-> 0, diff |-> 0, expected_sig |-> "", payload |-> Unset,
     trace |-> <<>>, out |-> Running]

(* the tolerance parameter, DEFAULT_TOLERANCE when not passed *)
Tolerance(a) == IF a.tolerance = NotPassed THEN DEFAULT_TOLERANCE ELSE a.tolerance.v

(* body if isinstance(body, bytes) else body.encode("utf-8") *)
BodyBytes(body) == IF body.t = "bytes" THEN body.v ELSE Utf8Encode(body.v)

(* the instance's key taking precedence over the per-call key *)
ResolveKey_InstanceFirst(env, a) ==
    LET key == Or(a.self_key, a.signing_key)
    IN  IF ~Truthy(key)
        THEN [env EXCEPT !.out = Raise("SignatureVerificationError", "NoSigningKey",
                 "No signing key provided.")]
        ELSE [env EXCEPT !.key = Flat(key.v)]

(* key = signing_key or self._signing_key; if not key: raise *)
ResolveKey(env, a) ==
    LET key == Or(a.signing_key, a.self_key)
    IN  IF ~Truthy(key)
        THEN [env EXCEPT !.out = Raise("SignatureVerificationError", "NoSigningKey",
                 "No signing key provided. Pass signing_key to the Posthook constructor or to parse_delivery().")]
        ELSE [env EXCEPT !.key = Flat(key.v)]

(* the identifier header treated as required *)
ExtractHookId_Required(env, a) ==
    LET hook_id == _get_header(a.headers, "Posthook-Id")
    IN  IF ~Truthy(hook_id)
        THEN [env EXCEPT !.out = Raise("SignatureVerificationError", "MissingId",
                 "Missing Posthook-Id header")]
        ELSE [env EXCEPT !.hook_id = Flat(hook_id.v)]

(* hook_id = _get_header(headers, "Posthook-Id") or "" *)
ExtractHookId(env, a) ==
    [env EXCEPT !.hook_id = Flat(Or(_get_header(a.headers, "Posthook-Id"), S1("")).v)]

(* timestamp_str = _get_header(...); if not timestamp_str: raise *)
ExtractTimestampHeader(env, a) ==
    LET timestamp_str == _get_header(a.headers, "Posthook-Timestamp")
    IN  IF ~Truthy(timestamp_str)
        THEN [env EXCEPT !.out = Raise("SignatureVerificationError", "MissingTimestamp",
                 "Missing Posthook-Timestamp header")]
        ELSE [env EXCEPT !.timestamp_str = Flat(timestamp_str.v)]

(* signature = _get_header(...); if not signature: raise *)
ExtractSignatureHeader(env, a) ==
    LET signature == _get_header(a.headers, "Posthook-Signature")
    IN  IF ~Truthy(signature)
        THEN [env EXCEPT !.out = Raise("SignatureVerificationError", "MissingSignature",
                 "Missing Posthook-Signature header")]
        ELSE [env EXCEPT !.signature = signature.v]

(* the tolerances a call can run with, and the timestamps at and just      *)
(* beyond each of them on both sides of the initial clock value            *)
Tolerances == (0..MaxTol) \cup {DEFAULT_TOLERANCE}
Timestamps ==
    UNION {{Epoch - (tol + 1), Epoch - tol, Epoch + tol, Epoch + tol + 1} :
           tol \in Tolerances}

(* int(timestamp_str): the integer, or ValueError *)
IntParse(text) ==
    IF \E n \in Timestamps : text \in IntTexts(n)
    THEN [ok |-> TRUE, v |-> CHOOSE n \in Timestamps : text \in IntTexts(n)]
    ELSE [ok |-> FALSE, exc |-> "ValueError"]

(* try: timestamp = int(timestamp_str) except ValueError: raise *)
ParseTimestamp(env, a) ==
    LET parsed == IntParse(env.timestamp_str)
    IN  IF ~parsed.ok
        THEN [env EXCEPT !.out = Raise("SignatureVerificationError", "InvalidTimestamp",
                 "Invalid Posthook-Timestamp: " \o env.timestamp_str)]
        ELSE [env EXCEPT !.timestamp = parsed.v]

(* the comparison with >= in place of > *)
Expired_Exclusive(diff, tolerance) == diff >= tolerance

(* diff > tolerance *)
Expired(diff, tolerance) == diff > tolerance

(* now = int(time.time()); diff = abs(now - timestamp); if diff > tolerance: raise *)
CheckFreshness(env, a) ==
    LET diff == Abs(a.now - env.timestamp)
    IN  IF Expired(diff, Tolerance(a))
        THEN [env EXCEPT !.diff = diff,
                 !.out = Raise("SignatureVerificationError", "TimestampExpired",
                     "Timestamp too old: " \o ToString(diff) \o "s difference exceeds "
                     \o ToString(Tolerance(a)) \o "s tolerance")]
        ELSE [env EXCEPT !.diff = diff]

(* the signature computed over the body as passed, text left unencoded *)
ComputeExpected_RawBody(env, a) ==
    [env EXCEPT !.expected_sig = _compute_signature(env.key, env.timestamp, a.body.v)]

(* expected_sig = _compute_signature(key, timestamp, body_bytes) *)
ComputeExpected(env, a) ==
    [env EXCEPT !.expected_sig =
        _compute_signature(env.key, env.timestamp, BodyBytes(a.body))]

(* the step without its raise *)
MatchSignatures_Unchecked(env, a) == env

(* the step accepting a signature computed for the next second as well *)
MatchSignatures_AnyTimestamp(env, a) ==
    IF \E t \in {env.timestamp, env.timestamp + 1} :
           Verified(Split(env.signature),
                    _compute_signature(env.key, t, BodyBytes(a.body)))
    THEN env
    ELSE [env EXCEPT !.out = Raise("SignatureVerificationError", "SignatureMismatch",
             "Signature verification failed")]

(* signatures = signature.split(" "); the compare loop; if not verified: raise *)
MatchSignatures(env, a) ==
    IF ~Verified(Split(env.signature), env.expected_sig)
    THEN [env EXCEPT !.out = Raise("SignatureVerificationError", "SignatureMismatch",
             "Signature verification failed")]
    ELSE env

(* try: payload = json.loads(body_bytes) except (JSONDecodeError, UnicodeDecodeError): raise *)
DecodePayload(env, a) ==
    LET loaded == JsonLoads(BodyBytes(a.body))
    IN  IF ~loaded.ok
        THEN [env EXCEPT !.out = Raise("SignatureVerificationError", "PayloadDecodeError",
                 "Failed to parse delivery payload: " \o loaded.exc)]
        ELSE [env EXCEPT !.payload = loaded.value]

(* return Delivery(...): the keyword arguments are evaluated in order, and *)
(* the first one that raises ends the call with its exception             *)
ConstructDelivery(env, a) ==
    LET payload == env.payload
        dates == [f \in {"postAt", "postedAt", "createdAt", "updatedAt"} |->
                     _parse_dt(DictGet(payload, f, JStr("")))]
        order == <<"postAt", "postedAt", "createdAt", "updatedAt">>
        bad   == {i \in 1..4 : ~dates[order[i]].ok}
    IN  IF payload.t # "object"
        THEN [env EXCEPT !.out = Raise("AttributeError", "",
                 "'list' object has no attribute 'get'")]
        ELSE IF bad # {}
        THEN [env EXCEPT !.out = Raise(
                 dates[order[CHOOSE i \in bad : \A j \in bad : i <= j]].exc, "",
                 "Invalid isoformat string")]
        ELSE [env EXCEPT !.out = Return(
                 [hook_id    |-> env.hook_id,
                  timestamp  |-> env.timestamp,
                  path       |-> DictGet(payload, "path", JStr("")),
                  data       |-> DictGet(payload, "data", None),
                  body       |-> BodyBytes(a.body),
                  post_at    |-> dates["postAt"].dt,
                  posted_at  |-> dates["postedAt"].dt,
                  created_at |-> dates["createdAt"].dt,
                  updated_at |-> dates["updatedAt"].dt])]

(* one step of the call, by name *)
Step(name, env, a) ==
    CASE name = "resolve_key"        -> ResolveKey(env, a)
      [] name = "hook_id"            -> ExtractHookId(env, a)
      [] name = "timestamp_header"   -> ExtractTimestampHeader(env, a)
      [] name = "signature_header"   -> ExtractSignatureHeader(env, a)
      [] name = "parse_timestamp"    -> ParseTimestamp(env, a)
      [] name = "freshness"          -> CheckFreshness(env, a)
      [] name = "compute_signature"  -> ComputeExpected(env, a)
      [] name = "match_signatures"   -> MatchSignatures(env, a)
      [] name = "decode_payload"     -> DecodePayload(env, a)
      [] name = "construct_delivery" -> ConstructDelivery(env, a)

(* step orders other than the code's *)
StepOrder_HeadersBeforeKey ==
    <<"hook_id", "timestamp_header", "signature_header", "resolve_key",
      "parse_timestamp", "freshness", "compute_signature", "match_signatures",
      "decode_payload", "construct_delivery">>
StepOrder_ParseBeforeSignatureHeader ==
    <<"resolve_key", "hook_id", "timestamp_header", "parse_timestamp",
      "signature_header", "freshness", "compute_signature", "match_signatures",
      "decode_payload", "construct_delivery">>
StepOrder_DecodeBeforeMatch ==
    <<"resolve_key", "hook_id", "timestamp_header", "signature_header",
      "parse_timestamp", "freshness", "decode_payload", "compute_signature",
      "match_signatures", "construct_delivery">>
StepOrder_MatchBeforeFreshness ==
    <<"resolve_key", "hook_id", "timestamp_header", "signature_header",
      "parse_timestamp", "compute_signature", "match_signatures", "freshness",
      "decode_payload", "construct_delivery">>

(* the order in which parse_delivery runs its steps *)
StepOrder ==
    <<"resolve_key", "hook_id", "timestamp_header", "signature_header",
      "parse_timestamp", "freshness", "compute_signature", "match_signatures",
      "decode_payload", "construct_delivery">>

RECURSIVE RunSteps(_, _, _, _)
RunSteps(order, i, env, a) ==
    IF i > Len(order) \/ env.out # Running THEN env
    ELSE RunSteps(order, i + 1,
                  Step(order[i], [env EXCEPT !.trace = Append(@, order[i])], a), a)

(* SignaturesService.parse_delivery: the frame the call ends with; its     *)
(* field `out` is what the call returned or raised                         *)
parse_delivery(a) == RunSteps(StepOrder, 1, Frame, a)

---------------------------------------------------------------------------
(* The requests that reach the handler *)

OldKey == "ph_sk_old_key"
NewKey == "ph_sk_new_key"

(* the sender's signature, as the tests' _make_signature computes it *)
_make_signature(key, timestamp, body) ==
    "v1," \o HmacSha256Hex(key, ToString(timestamp) \o "." \o body)

(* a body other than `b`, for signatures computed over different bytes *)
OtherBody(b) == IF b = ExampleBody THEN TamperedBody ELSE ExampleBody

(* Posthook-Signature values for a request presenting timestamp text `ts`  *)
(* and body bytes `b`: one or more signatures and other tokens             *)
SignatureValues(ts, b) ==
    LET t == IF IntParse(ts).ok THEN IntParse(ts).v ELSE Epoch
        old == _make_signature(OldKey, t, b)
        new == _make_signature(NewKey, t, b)
    IN  { <<old>>, <<new>>,
          <<old, " ", new>>,
          <<"garbage", " ", new>>,
          <<"garbage", " ", " ", old, " ", new>>,
          <<new, ",", old>>,
          <<"garbage">>,
          <<"v1,", " ", "garbage">>,
          <<_make_signature(NewKey, t + 1, b)>>,
          <<_make_signature(OldKey, t + 1, b), " ",
            _make_signature(NewKey, t + 1, b)>>,
          <<_make_signature(NewKey, t, OtherBody(b))>>,
          <<_make_signature(OldKey, t, OtherBody(b)), " ",
            _make_signature(NewKey, t, OtherBody(b))>>,
          <<>> }

TimestampTexts ==
    {ToString(t) : t \in Timestamps} \cup {" " \o ToString(Epoch), "not-a-number", ""}

IdEntry == << <<"Posthook-Id", S1("hook-123")>> >>
TimestampEntries(ts) == << <<"Posthook-Timestamp", S1(ts)>> >>
SignatureEntries(sig) == << <<"Posthook-Signature", Str(sig)>> >>

(* header mappings with canonical names and scalar values: every           *)
(* timestamp text with every signature value, and either header absent    *)
CanonicalHeaders(b) ==
    { IdEntry \o tse : tse \in {<<>>} \cup {TimestampEntries(ts) : ts \in TimestampTexts} }
    \cup
    UNION { { IdEntry \o TimestampEntries(ts) \o SignatureEntries(sig) :
                sig \in SignatureValues(ts, b) } :
            ts \in TimestampTexts }
    \cup
    { IdEntry \o SignatureEntries(sig) : sig \in SignatureValues("", b) }

(* the same without the Posthook-Id header *)
NoIdHeaders(b) ==
    { tse \o sge :
        tse \in {<<>>, TimestampEntries(ToString(Epoch))},
        sge \in {<<>>, SignatureEntries(<<_make_signature(NewKey, Epoch, b)>>),
                 SignatureEntries(<<"garbage">>)} }

(* a fresh and an expired timestamp, each with a matching signature, a     *)
(* rotated pair, a signature over other bytes and a foreign token          *)
BasicHeaders(b) ==
    UNION { { IdEntry \o TimestampEntries(ToString(t)) \o SignatureEntries(sig) :
                sig \in { <<_make_signature(NewKey, t, b)>>,
                          <<_make_signature(OldKey, t, b), " ",
                            _make_signature(NewKey, t, b)>>,
                          <<_make_signature(NewKey, t, OtherBody(b))>>,
                          <<"garbage">> } } :
            t \in {Epoch, Epoch + DEFAULT_TOLERANCE + 1} }

(* header mappings in other letter-casings and with list values *)
VariantHeaders(b) ==
    LET ts  == ToString(Epoch)
        sig == <<_make_signature(NewKey, Epoch, b)>>
    IN  { << <<"posthook-id", S1("hook-123")>>, <<"posthook-timestamp", S1(ts)>>,
             <<"posthook-signature", Str(sig)>> >>,
          << <<"Content-Type", S1("application/json")>>,
             <<"POSTHOOK-ID", List(<<S1("hook-123")>>)>>,
             <<"POSTHOOK-TIMESTAMP", List(<<S1(ts)>>)>>,
             <<"POSTHOOK-SIGNATURE", List(<<Str(sig)>>)>> >>,
          << <<"PostHook-TimeStamp", S1("not-a-number")>>,
             <<"posthook-timestamp", S1(ts)>>,
             <<"Posthook-Timestamp", S1(ts)>>,
             <<"PostHook-SIGNATURE", Str(sig)>> >>,
          << <<"Posthook-Timestamp", List(<<>>)>>, <<"posthook-timestamp", S1(ts)>>,
             <<"Posthook-Signature", Str(sig)>> >>,
          << <<"Posthook-Timestamp", None>>, <<"Posthook-Signature", Str(sig)>> >> }

Bodies == {Bytes(b) : b \in ByteBodies} \cup {Text(x) : x \in TextBodies}

(* the bodies presented with every header mapping of the model; the other *)
(* bodies come with the basic ones                                         *)
FullBodies == {Bytes(ExampleBody), Bytes(TruncatedBody)}

HeadersFor(body) ==
    IF body \in FullBodies
    THEN CanonicalHeaders(BodyBytes(body)) \cup VariantHeaders(BodyBytes(body))
         \cup NoIdHeaders(BodyBytes(body))
    ELSE BasicHeaders(BodyBytes(body))

InstanceKeys == {None, S1(""), S1(OldKey)}
CallKeys     == {None, S1(""), S1(NewKey)}
CallTolerances == {NotPassed} \cup {PyInt(tol) : tol \in 0..MaxTol}

NoRequest == [body |-> None, headers |-> <<>>]
NoCall    == [signing_key |-> None, tolerance |-> NotPassed, now |-> 0]

---------------------------------------------------------------------------
(* Construction of a verifier.  A constructor gives [ok, exc, key]: `key`  *)
(* is the _signing_key of the SignaturesService it made; when it raised,   *)
(* ok is FALSE and exc names the exception.                                *)

ApiKey == "pk_from_env"

(* os.environ.get(name): the variable's value, None when it is not set *)
EnvironGet(env, name) == env[name]
(* os.environ.get(name, ""): the variable's value, "" when it is not set *)
EnvironGetOr(env, name, default) == IF env[name] = None THEN default ELSE env[name]

Made(key) == [ok |-> TRUE, exc |-> "", message |-> "", key |-> key]
Failed(exc, message) == [ok |-> FALSE, exc |-> exc, message |-> message, key |-> None]

(* SignaturesService(signing_key): the instance keeps the key as given *)
SignaturesService(signing_key) == Made(signing_key)

(* the factory taking the environment before its argument *)
create_signatures_EnvFirst(signing_key, env) ==
    LET resolved == Or(EnvironGetOr(env, "POSTHOOK_SIGNING_KEY", S1("")), signing_key)
    IN  IF ~Truthy(resolved) THEN Failed("ValueError",
                 "No signing key provided. Pass signing_key to create_signatures() or set the POSTHOOK_SIGNING_KEY environment variable.")
        ELSE SignaturesService(resolved)

(* create_signatures(signing_key): the explicit key, else the environment  *)
(* variable, else ValueError                                               *)
create_signatures(signing_key, env) ==
    LET resolved == Or(signing_key, EnvironGetOr(env, "POSTHOOK_SIGNING_KEY", S1("")))
    IN  IF ~Truthy(resolved) THEN Failed("ValueError",
                 "No signing key provided. Pass signing_key to create_signatures() or set the POSTHOOK_SIGNING_KEY environment variable.")
        ELSE SignaturesService(resolved)

(* the client refusing to be built without a signing key *)
Posthook_FailFast(api_key, signing_key, env) ==
    LET resolved_key == Or(api_key, EnvironGetOr(env, "POSTHOOK_API_KEY", S1("")))
        resolved_signing_key == Or(signing_key, EnvironGet(env, "POSTHOOK_SIGNING_KEY"))
    IN  IF ~Truthy(resolved_key) THEN Failed("AuthenticationError",
                 "No API key provided.")
        ELSE IF ~Truthy(resolved_signing_key) THEN Failed("ValueError",
                 "No signing key provided. Pass signing_key to create_signatures() or set the POSTHOOK_SIGNING_KEY environment variable.")
        ELSE SignaturesService(resolved_signing_key)
(* the client taking its signing key from the argument only *)
Posthook_ExplicitOnly(api_key, signing_key, env) ==
    LET resolved_key == Or(api_key, EnvironGetOr(env, "POSTHOOK_API_KEY", S1("")))
    IN  IF ~Truthy(resolved_key) THEN Failed("AuthenticationError",
                 "No API key provided.")
        ELSE SignaturesService(signing_key)

(* Posthook(api_key, signing_key=...): self.signatures *)
Posthook(api_key, signing_key, env) ==
    LET resolved_key == Or(api_key, EnvironGetOr(env, "POSTHOOK_API_KEY", S1("")))
        resolved_signing_key == Or(signing_key, EnvironGet(env, "POSTHOOK_SIGNING_KEY"))
    IN  IF ~Truthy(resolved_key) THEN Failed("AuthenticationError",
                 "No API key provided. Pass api_key to the Posthook constructor or set the POSTHOOK_API_KEY environment variable.")
        ELSE SignaturesService(resolved_signing_key)

(* AsyncPosthook(api_key, signing_key=...): self.signatures *)
AsyncPosthook(api_key, signing_key, env) ==
    LET resolved_key == Or(api_key, EnvironGetOr(env, "POSTHOOK_API_KEY", S1("")))
        resolved_signing_key == Or(signing_key, EnvironGet(env, "POSTHOOK_SIGNING_KEY"))
    IN  IF ~Truthy(resolved_key) THEN Failed("AuthenticationError",
                 "No API key provided. Pass api_key to the AsyncPosthook constructor or set the POSTHOOK_API_KEY environment variable.")
        ELSE SignaturesService(resolved_signing_key)

(* the constructor named `via` *)
Construct(via, api_key, signing_key, env) ==
    CASE via = "SignaturesService" -> SignaturesService(signing_key)
      [] via = "create_signatures" -> create_signatures(signing_key, env)
      [] via = "Posthook"          -> Posthook(api_key, signing_key, env)
      [] via = "AsyncPosthook"     -> AsyncPosthook(api_key, signing_key, env)

Constructors == {"SignaturesService", "create_signatures", "Posthook", "AsyncPosthook"}

(* the values of the two environment variables; None is "not set" *)
Environs ==
    [POSTHOOK_API_KEY : {None, S1(ApiKey)},
     POSTHOOK_SIGNING_KEY : {None, S1(""), S1(OldKey)}]
NoEnviron == [POSTHOOK_API_KEY |-> None, POSTHOOK_SIGNING_KEY |-> None]
ApiKeys == {None, S1(ApiKey)}

(* no verifier constructed yet *)
NotMade ==
    [via |-> "none", api_key |-> None, signing_key |-> None, environ |-> NoEnviron,
     ok |-> FALSE, exc |-> "", message |-> ""]
(* the record of a construction and its outcome *)
MadeBy(via, api_key, signing_key, env, r) ==
    [via |-> via, api_key |-> api_key, signing_key |-> signing_key, environ |-> env,
     ok |-> r.ok, exc |-> r.exc, message |-> r.message]

(* the threads that call parse_delivery on the one instance *)
Threads == {"t1", "t2"}

(* a thread outside parse_delivery: no arguments, position 0 *)
NoArgs ==
    [self_key |-> None, body |-> None, headers |-> <<>>, signing_key |-> None,
     tolerance |-> NotPassed, now |-> 0]
IdleThread == [pos |-> 0, a |-> NoArgs, env |-> Frame]

---------------------------------------------------------------------------
(* Errors of the HTTP API.  A finished operation gave a value or threw an  *)
(* exception: [ok, exc, status_code, code, message, value].                *)

Gave(value) ==
    [ok |-> TRUE, exc |-> "", status_code |-> None, code |-> "",
     message |-> None, value |-> value]
Threw(exc, status_code, code, message) ==
    [ok |-> FALSE, exc |-> exc, status_code |-> status_code, code |-> code,
     message |-> message, value |-> None]

(* PosthookError(message, status_code=..., code=...) *)
PosthookError(message, status_code, code) ==
    Threw("PosthookError", status_code, code, message)
BadRequestError(message) ==
    Threw("BadRequestError", PyInt(400), "bad_request", message)
AuthenticationError(message) ==
    Threw("AuthenticationError", PyInt(401), "authentication_error", message)
ForbiddenError(message) ==
    Threw("ForbiddenError", PyInt(403), "forbidden", message)
NotFoundError(message) ==
    Threw("NotFoundError", PyInt(404), "not_found", message)
PayloadTooLargeError(message) ==
    Threw("PayloadTooLargeError", PyInt(413), "payload_too_large", message)
RateLimitError(message) ==
    Threw("RateLimitError", PyInt(429), "rate_limit_exceeded", message)
InternalServerError(message, status_code) ==
    Threw("InternalServerError", PyInt(status_code), "internal_error", message)
PosthookConnectionError(message) ==
    Threw("PosthookConnectionError", None, "connection_error", message)
(* the built-in exceptions that leave the SDK as they are *)
ValueError(message) == Threw("ValueError", None, "", S1(message))
IndexError(message) == Threw("IndexError", None, "", S1(message))

(* the mapping that knows no class for 429 *)
_create_error_NoRateLimit(status_code, message) ==
    IF status_code = 400 THEN BadRequestError(message)
    ELSE IF status_code = 401 THEN AuthenticationError(message)
    ELSE IF status_code = 403 THEN ForbiddenError(message)
    ELSE IF status_code = 404 THEN NotFoundError(message)
    ELSE IF status_code = 413 THEN PayloadTooLargeError(message)
    ELSE IF status_code >= 500 THEN InternalServerError(message, status_code)
    ELSE PosthookError(message, PyInt(status_code), "unknown_error")

(* _create_error(status_code, message, headers) *)
_create_error(status_code, message) ==
    IF status_code = 400 THEN BadRequestError(message)
    ELSE IF status_code = 401 THEN AuthenticationError(message)
    ELSE IF status_code = 403 THEN ForbiddenError(message)
    ELSE IF status_code = 404 THEN NotFoundError(message)
    ELSE IF status_code = 413 THEN PayloadTooLargeError(message)
    ELSE IF status_code = 429 THEN RateLimitError(message)
    ELSE IF status_code >= 500 THEN InternalServerError(message, status_code)
    ELSE PosthookError(message, PyInt(status_code), "unknown_error")

---------------------------------------------------------------------------
(* The HTTP client.  What the transport gives for a request is a response  *)
(* [status_code, body], body being the JSON value it decodes to or NotJson,*)
(* or one of httpx's exceptions.                                           *)

NotJson == [t |-> "invalid"]
Response(status_code, body) ==
    [t |-> "response", status_code |-> status_code, body |-> body]
TimeoutException == [t |-> "TimeoutException", status_code |-> 0, body |-> NotJson]
HTTPError        == [t |-> "HTTPError", status_code |-> 0, body |-> NotJson]

(* the API's response envelope *)
Envelope(data) == JObj(("data" :> data) @@ ("error" :> JStr("")))
ErrorBody(text) == JObj("error" :> JStr(text))

(* httpx.Client(...): who created it, and whether close() was called on it *)
HttpxClient(by) == [t |-> "httpx.Client", by |-> by, closed |-> FALSE]

(* SyncHttpClient.__init__: _owns_client, _client *)
SyncHttpClient(http_client) ==
    [kind |-> "sync",
     owns_client |-> (http_client = None),
     client |-> IF http_client # None THEN http_client ELSE HttpxClient("sdk")]

(* AsyncHttpClient.__init__: _owns_client, _client *)
AsyncHttpClient(http_client) ==
    [kind |-> "async",
     owns_client |-> (http_client = None),
     client |-> IF http_client # None THEN http_client ELSE HttpxClient("sdk")]

(* _extract_error_message: body.get("error", "HTTP <status>"), and the     *)
(* fallback text when the body is no JSON or has no get()                  *)
_extract_error_message(response) ==
    LET fallback == JStr("HTTP " \o ToString(response.status_code))
    IN  IF response.body.t = "object"
        THEN DictGet(response.body, "error", fallback)
        ELSE fallback

(* params = {k: v for k, v in params.items() if v is not None} *)
DropNone(params) ==
    [k \in {n \in DOMAIN params : params[n] # None} |-> params[k]]

(* the request as it reaches the transport *)
WireRequest(method, path, json, params) ==
    [method |-> method, path |-> path, json |-> json, params |-> DropNone(params)]
NoParams == <<>>

---------------------------------------------------------------------------
(* The API server and the network, as the tests' transports stand in for   *)
(* them.  The server holds a sequence of hooks [id, postAt, status] in     *)
(* ascending postAt order.                                                 *)

(* the instant a timestamp text names, in seconds after 2026-03-01T12:00Z *)
InstantOf(text) ==
    LET iso == ReplaceZ(text)
    IN  CASE iso = "2026-03-01T12:00:00+00:00" -> 0
          [] iso = "2026-03-01T12:00:01+00:00" -> 1
          [] iso = "2026-03-01T13:00:01+01:00" -> 1
          [] iso = "2026-03-01T12:00:02+00:00" -> 2

(* urllib.parse.quote(id, safe=""): "/" becomes %2F; letters, digits and   *)
(* "-" stay                                                                *)
Quote(id) == IF id = "id/with/slashes" THEN "id%2Fwith%2Fslashes" ELSE id

(* a hook as the API writes it *)
HookJson(h) ==
    JObj(("id" :> JStr(h.id)) @@ ("path" :> JStr("/webhooks/test")) @@
         ("postAt" :> JStr(h.postAt)) @@ ("status" :> JStr(h.status)))
HOOK_FIXTURE ==
    [id |-> "hook-uuid-123", postAt |-> "2026-03-01T12:00:00Z", status |-> "pending"]

(* GET /v1/hooks: the first `limit` hooks, in ascending postAt order, with *)
(* the asked status and a postAt strictly after the cursor                 *)
ServerList(store, params) ==
    LET has(k)   == k \in DOMAIN params
        after(h) == has("postAtAfter") =>
                        InstantOf(h.postAt) > InstantOf(Flat(params["postAtAfter"].v))
        asked(h) == has("status") => h.status = Flat(params["status"].v)
        matching == SelectSeq(store, LAMBDA h : after(h) /\ asked(h))
        limit    == IF has("limit") THEN params["limit"].v ELSE Len(matching)
        n        == IF limit <= 0 THEN 0
                    ELSE IF limit < Len(matching) THEN limit ELSE Len(matching)
    IN  Response(200, Envelope(JArr([i \in 1..n |-> HookJson(matching[i])])))

(* the store's answer to a request, and its hooks afterwards *)
ServerAnswer(store, wire) ==
    LET named == {i \in 1..Len(store) : wire.path = "/v1/hooks/" \o Quote(store[i].id)}
        i     == CHOOSE k \in named : TRUE
        rest  == SelectSeq(store, LAMBDA h : h # store[i])
    IN  IF wire.path = "/v1/hooks" /\ wire.method = "GET"
        THEN [reply |-> ServerList(store, wire.params), server |-> store]
        ELSE IF wire.path = "/v1/hooks" /\ wire.method = "POST"
        THEN [reply |-> Response(200, Envelope(HookJson(HOOK_FIXTURE))), server |-> store]
        ELSE IF named = {}
        THEN [reply |-> Response(404, ErrorBody("not found")), server |-> store]
        ELSE IF wire.method = "DELETE"
        THEN [reply |-> Response(200, Envelope(JObj(<<>>))), server |-> rest]
        ELSE [reply |-> Response(200, Envelope(HookJson(store[i]))), server |-> store]

(* what can happen to a request on its way: nothing, a status the server   *)
(* or a proxy answers with instead, a body that is no JSON, a timeout      *)
(* before or after the server acted, a connection failure                  *)
NoFault == [t |-> "none", status_code |-> 0]
StatusFault(status_code) == [t |-> "status", status_code |-> status_code]
Statuses == {400, 401, 403, 404, 413, 418, 429, 451, 500, 502, 503}
Faults ==
    {NoFault} \cup {StatusFault(s) : s \in Statuses} \cup
    {[t |-> k, status_code |-> 0] : k \in {"html", "timeout", "late", "network"}}

(* the transport: the reply the client's request gets, and the server's    *)
(* hooks afterwards                                                        *)
Transport(net, wire) ==
    LET real == ServerAnswer(net.server, wire)
        f    == net.fault
    IN  CASE f.t = "none"    -> real
          [] f.t = "status"  -> [reply |-> Response(f.status_code, ErrorBody("refused")),
                                 server |-> net.server]
          [] f.t = "html"    -> [reply |-> Response(502, NotJson), server |-> net.server]
          [] f.t = "timeout" -> [reply |-> TimeoutException, server |-> net.server]
          [] f.t = "late"    -> [reply |-> TimeoutException, server |-> real.server]
          [] f.t = "network" -> [reply |-> HTTPError, server |-> net.server]
Net(store, fault) == [server |-> store, fault |-> fault]

(* _unwrap_data: body.get("data") *)
_unwrap_data(body) ==
    IF body.t # "object"
    THEN Threw("AttributeError", None, "", S1("object has no attribute 'get'"))
    ELSE Gave(DictGet(body, "data", None))

(* what request() makes of what the transport gave: httpx's exceptions     *)
(* become PosthookConnectionError; a status >= 400 raises                  *)
(* _create_error(...); otherwise the decoded body is returned              *)
ReadReply(reply) ==
    IF reply.t = "TimeoutException" THEN
        PosthookConnectionError(S1("Request timed out: "))
    ELSE IF reply.t = "HTTPError" THEN
        PosthookConnectionError(S1("Network error: "))
    ELSE IF reply.status_code >= 400 THEN
        _create_error(reply.status_code, _extract_error_message(reply))
    ELSE IF reply.body = NotJson THEN
        Threw("JSONDecodeError", None, "", S1("Expecting value"))
    ELSE Gave(reply.body)

(* a finished exchange: the outcome, the request that reached the          *)
(* transport, the server's hooks afterwards                                *)
Exchanged(wire, got) ==
    [out |-> ReadReply(got.reply), sent |-> <<wire>>, server |-> got.server]
Exchange(wire, net) == Exchanged(wire, Transport(net, wire))

(* a closed httpx client refuses to send: nothing reaches the transport *)
Refused(net) ==
    [out |-> Threw("RuntimeError", None, "",
               S1("Cannot send a request, as the client has been closed.")),
     sent |-> <<>>, server |-> net.server]

(* SyncHttpClient.request *)
SyncHttpClient_request(self, method, path, json, params, net) ==
    IF self.client.closed THEN Refused(net)
    ELSE Exchange(WireRequest(method, path, json, params), net)

(* AsyncHttpClient.request *)
AsyncHttpClient_request(self, method, path, json, params, net) ==
    IF self.client.closed THEN Refused(net)
    ELSE Exchange(WireRequest(method, path, json, params), net)

(* body, headers = self.request(...); return _unwrap_data(body), headers *)
Unwrapped(r) == IF r.out.ok THEN [r EXCEPT !.out = _unwrap_data(r.out.value)] ELSE r

(* SyncHttpClient.request_data *)
SyncHttpClient_request_data(self, method, path, json, params, net) ==
    Unwrapped(SyncHttpClient_request(self, method, path, json, params, net))

(* AsyncHttpClient.request_data *)
AsyncHttpClient_request_data(self, method, path, json, params, net) ==
    Unwrapped(AsyncHttpClient_request(self, method, path, json, params, net))

(* the close() that closes whatever client it holds *)
SyncHttpClient_close_Always(self) == [self EXCEPT !.client.closed = TRUE]

(* SyncHttpClient.close: if self._owns_client: self._client.close() *)
SyncHttpClient_close(self) ==
    IF self.owns_client THEN [self EXCEPT !.client.closed = TRUE] ELSE self

(* AsyncHttpClient.close: if self._owns_client: await self._client.aclose() *)
AsyncHttpClient_close(self) ==
    IF self.owns_client THEN [self EXCEPT !.client.closed = TRUE] ELSE self

---------------------------------------------------------------------------
(* Hooks.  A datetime argument is [t, iso, tzinfo]: its wall-clock text    *)
(* and its offset, None when it is naive.                                  *)

Datetime(iso, tzinfo) == [t |-> "datetime", iso |-> iso, tzinfo |-> tzinfo]

(* post_at.astimezone(timezone.utc).strftime("%Y-%m-%dT%H:%M:%SZ") *)
UtcStamp(d) ==
    CASE d = Datetime("2026-03-01T12:00:00", S1("+00:00")) -> "2026-03-01T12:00:00Z"
      [] d = Datetime("2026-03-01T13:00:01", S1("+01:00")) -> "2026-03-01T12:00:01Z"

(* HookRetryOverride.to_dict(): the optional fields only when set *)
HookRetryOverride_to_dict(o) ==
    JObj([k \in {"minRetries", "delaySecs", "strategy", "jitter"} \cup
                {n \in {"backoffFactor", "maxDelaySecs"} : o[n] # None} |-> o[k]])

(* the body builder that lets a call without a scheduling mode through *)
_build_schedule_body_ModeOptional(path, data, post_at, post_at_local, timezone_str, post_in, retry_override) ==
    Gave(("path" :> S1(path)))

(* _build_schedule_body: exactly one of post_at, post_at_local, post_in;   *)
(* an aware datetime is written in UTC, a naive one is refused             *)
_build_schedule_body(path, data, post_at, post_at_local, timezone_str, post_in, retry_override) ==
    LET modes == Cardinality({i \in 1..3 :
                     <<post_at, post_at_local, post_in>>[i] # None})
        body0 == ("path" :> S1(path))
        body1 == IF data # None THEN body0 @@ ("data" :> data) ELSE body0
        naive == post_at # None /\ post_at.t = "datetime" /\ post_at.tzinfo = None
        body2 ==
            IF post_at # None THEN
                IF post_at.t = "datetime"
                THEN body1 @@ ("postAt" :> S1(IF naive THEN "" ELSE UtcStamp(post_at)))
                ELSE body1 @@ ("postAt" :> post_at)
            ELSE IF post_at_local # None THEN
                IF timezone_str # None
                THEN body1 @@ ("postAtLocal" :> post_at_local) @@ ("timezone" :> timezone_str)
                ELSE body1 @@ ("postAtLocal" :> post_at_local)
            ELSE IF post_in # None THEN body1 @@ ("postIn" :> post_in)
            ELSE body1
        body3 == IF retry_override # None
                 THEN body2 @@ ("retryOverride" :> HookRetryOverride_to_dict(retry_override))
                 ELSE body2
    IN  IF modes = 0 THEN
            ValueError("Exactly one scheduling mode is required: post_at, post_at_local, or post_in")
        ELSE IF modes > 1 THEN
            ValueError("Only one scheduling mode allowed: post_at, post_at_local, or post_in")
        ELSE IF naive THEN
            ValueError("post_at datetime must be timezone-aware. Use datetime.now(timezone.utc) or datetime(..., tzinfo=timezone.utc)")
        ELSE Gave(body3)

(* the arguments of list(): every filter None unless given *)
NoListArgs ==
    [status |-> None, limit |-> None, offset |-> None, post_at_before |-> None,
     post_at_after |-> None, created_at_before |-> None, created_at_after |-> None,
     sort_by |-> None, sort_order |-> None]

(* _build_list_params: one query parameter per argument that is not None *)
_build_list_params(a) ==
    DropNone(("status" :> a.status) @@ ("limit" :> a.limit) @@ ("offset" :> a.offset) @@
             ("postAtBefore" :> a.post_at_before) @@ ("postAtAfter" :> a.post_at_after) @@
             ("createdAtBefore" :> a.created_at_before) @@
             ("createdAtAfter" :> a.created_at_after) @@
             ("sortBy" :> a.sort_by) @@ ("sortOrder" :> a.sort_order))

(* Hook.from_dict: the required keys by subscript, the dates by _parse_dt *)
Hook_from_dict(data) ==
    LET required == <<"id", "path", "postAt", "status">>
        missing  == {i \in 1..4 : required[i] \notin DOMAIN data.fields}
        post_at  == _parse_dt(data.fields["postAt"])
        created  == _parse_dt(DictGet(data, "createdAt", JStr("")))
        updated  == _parse_dt(DictGet(data, "updatedAt", JStr("")))
    IN  IF data.t # "object" THEN
            Threw("TypeError", None, "", S1("object is not subscriptable"))
        ELSE IF missing # {} /\ (CHOOSE i \in missing : \A j \in missing : i <= j) < 3 THEN
            Threw("KeyError", None, "", S1("id or path"))
        ELSE IF 3 \in missing THEN Threw("KeyError", None, "", S1("postAt"))
        ELSE IF ~post_at.ok THEN Threw(post_at.exc, None, "", S1("Invalid isoformat string"))
        ELSE IF 4 \in missing THEN Threw("KeyError", None, "", S1("status"))
        ELSE IF ~created.ok THEN Threw(created.exc, None, "", S1("Invalid isoformat string"))
        ELSE IF ~updated.ok THEN Threw(updated.exc, None, "", S1("Invalid isoformat string"))
        ELSE Gave([t |-> "Hook",
                   id |-> data.fields["id"], path |-> data.fields["path"],
                   data |-> DictGet(data, "data", None),
                   post_at |-> post_at.dt, status |-> data.fields["status"],
                   created_at |-> created.dt, updated_at |-> updated.dt,
                   quota |-> None])

RECURSIVE HooksFromList(_)
(* [Hook.from_dict(h) for h in raw_list]: the hooks, or the first error *)
HooksFromList(raw) ==
    IF raw = <<>> THEN Gave(<<>>)
    ELSE LET first == Hook_from_dict(Head(raw))
             rest  == HooksFromList(Tail(raw))
         IN  IF ~first.ok THEN first
             ELSE IF ~rest.ok THEN rest
             ELSE Gave(<<first.value>> \o rest.value)

(* hooks[-1].post_at.astimezone(timezone.utc).isoformat() *)
CursorOf(post_at) ==
    IF post_at = "2026-03-01T13:00:01+01:00" THEN "2026-03-01T12:00:01+00:00"
    ELSE post_at

(* a list_all generator: its arguments, its cursor, what it sent, received *)
(* and yielded, and where it stands: "none", "running", "ended", "raised"  *)
NoIter ==
    [state |-> "none", status |-> None, post_at_after |-> None, page_size |-> 0,
     cursor |-> None, sent |-> <<>>, pages |-> <<>>, yielded |-> <<>>,
     out |-> Gave(None)]

(* the arguments of a hooks operation, none given *)
NoHookArgs ==
    [id |-> None, path |-> "", data |-> None, post_at |-> None, post_at_local |-> None,
     timezone |-> None, post_in |-> None, retry_override |-> None, fault |-> NoFault]
(* no hooks operation yet *)
NoOp == [name |-> "none", a |-> NoHookArgs, before |-> <<>>, sent |-> <<>>, out |-> Gave(None)]

(* nothing was sent: the operation raised before its request *)
NotSent(out, net) == [out |-> out, sent |-> <<>>, server |-> net.server]

(* Hook.from_dict(data) on what request_data gave *)
ReadHook(r) == IF ~r.out.ok THEN r ELSE [r EXCEPT !.out = Hook_from_dict(r.out.value)]

(* [Hook.from_dict(h) for h in (raw_list or [])] on what request_data gave *)
ReadHooks(r) ==
    IF ~r.out.ok THEN r
    ELSE IF r.out.value = None \/ (r.out.value.t = "array" /\ r.out.value.v = <<>>)
    THEN [r EXCEPT !.out = Gave(<<>>)]
    ELSE IF r.out.value.t # "array"
    THEN [r EXCEPT !.out = Threw("TypeError", None, "", S1("string indices must be integers"))]
    ELSE [r EXCEPT !.out = HooksFromList(r.out.value.v)]

(* the path of one hook: f"/v1/hooks/{quote(id, safe='')}" *)
HookPath(id) == "/v1/hooks/" \o Quote(Flat(id.v))

(* HooksService.schedule, from the built body on: POST it, read the hook *)
HooksService_schedule_body(self, body, net) ==
    IF ~body.ok THEN NotSent(body, net)
    ELSE ReadHook(SyncHttpClient_request_data(self, "POST", "/v1/hooks",
                      JObj(body.value), NoParams, net))

(* HooksService.schedule *)
HooksService_schedule(self, path, data, post_at, post_at_local, timezone, post_in, retry_override, net) ==
    HooksService_schedule_body(self,
        _build_schedule_body(path, data, post_at, post_at_local, timezone,
                             post_in, retry_override), net)

(* the get() that sends whatever id it is given *)
HooksService_get_Unguarded(self, id, net) ==
    ReadHook(SyncHttpClient_request_data(self, "GET", HookPath(id), None, NoParams, net))

(* HooksService.get *)
HooksService_get(self, id, net) ==
    IF ~Truthy(id) THEN NotSent(ValueError("hook id is required"), net)
    ELSE ReadHook(SyncHttpClient_request_data(self, "GET", HookPath(id), None, NoParams, net))

(* HooksService.list: the parameters, the request, the hooks of the answer *)
HooksService_list(self, a, net) ==
    ReadHooks(SyncHttpClient_request_data(self, "GET", "/v1/hooks", None,
                                          _build_list_params(a), net))

(* HooksService.list_all(...): the generator before its first turn *)
HooksService_list_all(status, post_at_after, page_size) ==
    [NoIter EXCEPT !.state = "running", !.status = status,
                   !.post_at_after = post_at_after, !.page_size = page_size,
                   !.cursor = post_at_after]

(* the arguments list_all gives list() *)
PageArgs(it) ==
    [NoListArgs EXCEPT !.status = it.status, !.limit = PyInt(it.page_size),
                       !.sort_by = S1("postAt"), !.sort_order = S1("ASC"),
                       !.post_at_after = it.cursor]

(* the generator after list() raised *)
Raised(it, r) == [it EXCEPT !.state = "raised", !.out = r.out, !.sent = @ \o r.sent]

(* the turn that keeps the cursor where it was *)
Turn_SameCursor(it, r, hooks) ==
    IF ~r.out.ok THEN Raised(it, r)
    ELSE IF Len(hooks) < it.page_size
    THEN [it EXCEPT !.sent = @ \o r.sent, !.pages = Append(@, hooks),
                    !.yielded = @ \o hooks, !.state = "ended"]
    ELSE IF hooks = <<>>
    THEN [it EXCEPT !.sent = @ \o r.sent, !.pages = Append(@, hooks),
                    !.state = "raised", !.out = IndexError("list index out of range")]
    ELSE [it EXCEPT !.sent = @ \o r.sent, !.pages = Append(@, hooks),
                    !.yielded = @ \o hooks]

(* one turn of list_all's loop once list() answered: yield the hooks, stop *)
(* when the page is shorter than page_size, else move the cursor to the    *)
(* post_at of its last hook (an IndexError when the page is empty)         *)
Turn(it, r, hooks) ==
    IF ~r.out.ok THEN Raised(it, r)
    ELSE IF Len(hooks) < it.page_size
    THEN [it EXCEPT !.sent = @ \o r.sent, !.pages = Append(@, hooks),
                    !.yielded = @ \o hooks, !.state = "ended"]
    ELSE IF hooks = <<>>
    THEN [it EXCEPT !.sent = @ \o r.sent, !.pages = Append(@, hooks),
                    !.state = "raised", !.out = IndexError("list index out of range")]
    ELSE [it EXCEPT !.sent = @ \o r.sent, !.pages = Append(@, hooks),
                    !.yielded = @ \o hooks,
                    !.cursor = S1(CursorOf(hooks[Len(hooks)].post_at))]
Turned(it, r) == [server |-> r.server, it |-> Turn(it, r, r.out.value)]

(* HooksService.list_all: one turn of the loop *)
HooksService_list_all_step(self, it, net) ==
    Turned(it, HooksService_list(self, PageArgs(it), net))

(* the handler that lets NotFoundError out *)
Swallow404_Never(r) == IF ~r.out.ok THEN r ELSE [r EXCEPT !.out = Gave(None)]

(* try: ... except NotFoundError: pass *)
Swallow404(r) ==
    IF ~r.out.ok /\ r.out.exc # "NotFoundError" THEN r ELSE [r EXCEPT !.out = Gave(None)]

(* HooksService.delete *)
HooksService_delete(self, id, net) ==
    IF ~Truthy(id) THEN NotSent(ValueError("hook id is required"), net)
    ELSE Swallow404(SyncHttpClient_request_data(self, "DELETE", HookPath(id), None,
                                                NoParams, net))

(* AsyncHooksService.schedule, from the built body on: POST it, read the hook *)
AsyncHooksService_schedule_body(self, body, net) ==
    IF ~body.ok THEN NotSent(body, net)
    ELSE ReadHook(AsyncHttpClient_request_data(self, "POST", "/v1/hooks",
                      JObj(body.value), NoParams, net))

(* AsyncHooksService.schedule *)
AsyncHooksService_schedule(self, path, data, post_at, post_at_local, timezone, post_in, retry_override, net) ==
    AsyncHooksService_schedule_body(self,
        _build_schedule_body(path, data, post_at, post_at_local, timezone,
                             post_in, retry_override), net)

(* AsyncHooksService.get *)
AsyncHooksService_get(self, id, net) ==
    IF ~Truthy(id) THEN NotSent(ValueError("hook id is required"), net)
    ELSE ReadHook(AsyncHttpClient_request_data(self, "GET", HookPath(id), None, NoParams, net))

(* AsyncHooksService.list: the parameters, the request, the hooks of the answer *)
AsyncHooksService_list(self, a, net) ==
    ReadHooks(AsyncHttpClient_request_data(self, "GET", "/v1/hooks", None,
                                          _build_list_params(a), net))

(* AsyncHooksService.list_all(...): the generator before its first turn *)
AsyncHooksService_list_all(status, post_at_after, page_size) ==
    [NoIter EXCEPT !.state = "running", !.status = status,
                   !.post_at_after = post_at_after, !.page_size = page_size,
                   !.cursor = post_at_after]

(* AsyncHooksService.list_all: one turn of the loop *)
AsyncHooksService_list_all_step(self, it, net) ==
    Turned(it, AsyncHooksService_list(self, PageArgs(it), net))

(* AsyncHooksService.delete *)
AsyncHooksService_delete(self, id, net) ==
    IF ~Truthy(id) THEN NotSent(ValueError("hook id is required"), net)
    ELSE Swallow404(AsyncHttpClient_request_data(self, "DELETE", HookPath(id), None,
                                                NoParams, net))


---------------------------------------------------------------------------
(* The state machine *)

(* SignaturesService(signing_key): the instance keeps the key it is given *)
Init ==
    /\ now = Epoch
    /\ self_key \in InstanceKeys
    /\ pc = "idle"
    /\ request = NoRequest
    /\ call = NoCall
    /\ result = Frame
    /\ threads = [t \in Threads |-> IdleThread]
    /\ environ = NoEnviron
    /\ made = MadeBy("SignaturesService", None, self_key, environ,
                     SignaturesService(self_key))
    /\ http = SyncHttpClient(None)
    /\ server = <<>>
    /\ op = NoOp
    /\ iter = NoIter

(* the wall clock advances by a second *)
Tick ==
    /\ now < Epoch + MaxTick
    /\ now' = now + 1
    /\ UNCHANGED <<self_key, pc, request, call, result, threads, environ, made>> /\ UNCHANGED hooksVars

(* a request reaches the handler *)
Receive(body, headers) ==
    /\ pc = "idle"
    /\ request' = [body |-> body, headers |-> headers]
    /\ pc' = "received"
    /\ UNCHANGED <<now, self_key, call, result, threads, environ, made>> /\ UNCHANGED hooksVars

(* the handler calls self.parse_delivery(body, headers, signing_key=..., tolerance=...) *)
ParseDelivery(signing_key, tolerance) ==
    /\ pc = "received"
    /\ made.ok
    /\ call' = [signing_key |-> signing_key, tolerance |-> tolerance, now |-> now]
    /\ result' = parse_delivery(
                    [self_key |-> self_key, body |-> request.body,
                     headers |-> request.headers, signing_key |-> signing_key,
                     tolerance |-> tolerance, now |-> now])
    /\ pc' = "returned"
    /\ UNCHANGED <<now, self_key, request, threads, environ, made>> /\ UNCHANGED hooksVars

(* the handler is done with the request *)
Finish ==
    /\ pc = "returned"
    /\ pc' = "idle"
    /\ request' = NoRequest
    /\ call' = NoCall
    /\ result' = Frame
    /\ UNCHANGED <<now, self_key, threads, environ, made>> /\ UNCHANGED hooksVars

Next ==
    \/ Tick
    \/ \E body \in Bodies : \E headers \in HeadersFor(body) : Receive(body, headers)
    \/ \E signing_key \in CallKeys : \E tolerance \in CallTolerances :
           ParseDelivery(signing_key, tolerance)
    \/ Finish

Spec == Init /\ [][Next]_vars

---------------------------------------------------------------------------
(* Concurrent calls.  Each thread runs parse_delivery statement by         *)
(* statement on its own frame; the threads share the instance (self_key)   *)
(* and the wall clock.  A thread reads self._signing_key in its first      *)
(* statement and the clock in the freshness statement.                     *)

(* the requests and overrides of the concurrent calls *)
ConcurrentHeaders ==
    { IdEntry \o TimestampEntries(ToString(Epoch)) \o SignatureEntries(sig) :
        sig \in { <<_make_signature(NewKey, Epoch, ExampleBody)>>,
                  <<_make_signature(OldKey, Epoch, ExampleBody)>> } }
    \cup { IdEntry \o TimestampEntries(ToString(Epoch)) }
ConcurrentKeys == {None, S1(NewKey)}
ConcurrentTolerances == {NotPassed, PyInt(0)}

(* the value of self._signing_key after a statement of parse_delivery ran: *)
(* no statement assigns it, so the per-call key is forgotten              *)
SigningKeyAfter_Remembered(key, a) ==
    IF Truthy(a.signing_key) THEN a.signing_key ELSE key

SigningKeyAfter(key, a) == key

(* a thread enters parse_delivery(body, headers, signing_key=, tolerance=) *)
Enter(t, headers, signing_key, tolerance) ==
    /\ threads[t].pos = 0
    /\ threads' = [threads EXCEPT ![t] =
          [pos |-> 1,
           a   |-> [self_key |-> self_key, body |-> Bytes(ExampleBody),
                    headers |-> headers, signing_key |-> signing_key,
                    tolerance |-> tolerance, now |-> 0],
           env |-> Frame]]
    /\ UNCHANGED <<now, self_key, pc, request, call, result, environ, made>> /\ UNCHANGED hooksVars

(* a thread runs its next statement, reading the instance and the clock    *)
(* as they are at that moment                                              *)
RunStatement(t) ==
    LET th   == threads[t]
        name == StepOrder[th.pos]
        seen == [th.a EXCEPT !.self_key = self_key,
                             !.now = IF name = "freshness" THEN now ELSE @]
    IN  /\ th.pos \in 1..Len(StepOrder)
        /\ th.env.out = Running
        /\ threads' = [threads EXCEPT ![t] =
              [pos |-> th.pos + 1,
               a   |-> [th.a EXCEPT !.now = seen.now],
               env |-> Step(name, [th.env EXCEPT !.trace = Append(@, name)], seen)]]
        /\ self_key' = SigningKeyAfter(self_key, th.a)
        /\ UNCHANGED <<now, pc, request, call, result, environ, made>> /\ UNCHANGED hooksVars

(* the call has returned or raised and the thread leaves it *)
Leave(t) ==
    /\ threads[t].pos > 0
    /\ threads[t].env.out # Running
    /\ threads' = [threads EXCEPT ![t] = IdleThread]
    /\ UNCHANGED <<now, self_key, pc, request, call, result, environ, made>> /\ UNCHANGED hooksVars

NextConcurrent ==
    \/ Tick
    \/ \E t \in Threads : \E headers \in ConcurrentHeaders :
           \E signing_key \in ConcurrentKeys : \E tolerance \in ConcurrentTolerances :
               Enter(t, headers, signing_key, tolerance)
    \/ \E t \in Threads : RunStatement(t)
    \/ \E t \in Threads : Leave(t)

SpecConcurrent == Init /\ [][NextConcurrent]_vars

---------------------------------------------------------------------------
(* Construction.  The process starts with some environment and no          *)
(* verifier; it constructs one through one of the four constructors, the   *)
(* environment may change at any time, and requests are handled with the   *)
(* verifier that was constructed.                                          *)

InitConstruct ==
    /\ now = Epoch
    /\ self_key = None
    /\ pc = "idle"
    /\ request = NoRequest
    /\ call = NoCall
    /\ result = Frame
    /\ threads = [t \in Threads |-> IdleThread]
    /\ environ \in Environs
    /\ made = NotMade
    /\ http = SyncHttpClient(None)
    /\ server = <<>>
    /\ op = NoOp
    /\ iter = NoIter

(* os.environ[name] = value, or del os.environ[name] when value is None *)
SetEnv(name, value) ==
    /\ environ[name] # value
    /\ environ' = [environ EXCEPT ![name] = value]
    /\ UNCHANGED <<now, self_key, pc, request, call, result, threads, made>> /\ UNCHANGED hooksVars

(* the constructor runs with the environment as it is now *)
Create(via, api_key, signing_key) ==
    LET r == Construct(via, api_key, signing_key, environ)
    IN  /\ made.via = "none"
        /\ made' = MadeBy(via, api_key, signing_key, environ, r)
        /\ self_key' = r.key
        /\ UNCHANGED <<now, pc, request, call, result, threads, environ>> /\ UNCHANGED hooksVars

NextConstruct ==
    \/ Tick
    \/ \E v \in {None, S1(""), S1(OldKey)} : SetEnv("POSTHOOK_SIGNING_KEY", v)
    \/ \E via \in Constructors : \E api_key \in ApiKeys : \E signing_key \in CallKeys :
           Create(via, api_key, signing_key)
    \/ \E headers \in ConcurrentHeaders : made.ok /\ Receive(Bytes(ExampleBody), headers)
    \/ \E signing_key \in ConcurrentKeys : \E tolerance \in ConcurrentTolerances :
           ParseDelivery(signing_key, tolerance)
    \/ Finish

SpecConstruct == InitConstruct /\ [][NextConstruct]_vars

---------------------------------------------------------------------------
(* Hooks over HTTP.  One client, sync or async, over an httpx client it    *)
(* created or was given; the operations run to completion one at a time.   *)

(* Posthook.close: self._http.close() *)
Posthook_close(self) == SyncHttpClient_close(self)
(* Posthook.__exit__: self.close() *)
Posthook_exit(self) == Posthook_close(self)
(* AsyncPosthook.close: await self._http.close() *)
AsyncPosthook_close(self) == AsyncHttpClient_close(self)
(* AsyncPosthook.__aexit__: await self.close() *)
AsyncPosthook_aexit(self) == AsyncPosthook_close(self)

(* the verifier's side at rest *)
SignaturesIdle ==
    /\ now = Epoch
    /\ self_key = None
    /\ pc = "idle"
    /\ request = NoRequest
    /\ call = NoCall
    /\ result = Frame
    /\ threads = [t \in Threads |-> IdleThread]
    /\ environ = NoEnviron
    /\ made = NotMade

(* the hooks the server holds when the client is made *)
SLASH_ID == "id/with/slashes"
HooksStore ==
    << [id |-> "hook-1", postAt |-> "2026-03-01T12:00:00Z", status |-> "pending"],
       [id |-> SLASH_ID, postAt |-> "2026-03-01T12:00:02Z", status |-> "failed"] >>
HookIds == {S1(""), S1("hook-1"), S1(SLASH_ID)}

(* the clients a program can make: Posthook or AsyncPosthook, with or      *)
(* without http_client=                                                    *)
HttpClients ==
    {SyncHttpClient(c) : c \in {None, HttpxClient("caller")}} \cup
    {AsyncHttpClient(c) : c \in {None, HttpxClient("caller")}}

InitHooks ==
    /\ SignaturesIdle
    /\ http \in HttpClients
    /\ server = HooksStore
    /\ op = NoOp
    /\ iter = NoIter

sigVars == <<now, self_key, pc, request, call, result, threads, environ, made>>

(* an operation ran: its arguments, the server's hooks before it, the     *)
(* requests that reached the transport and the outcome are recorded, and   *)
(* the server holds what the exchange left                                 *)
Ran(name, a, r) ==
    /\ op' = [name |-> name, a |-> a, before |-> server, sent |-> r.sent, out |-> r.out]
    /\ server' = r.server
    /\ UNCHANGED <<http, iter>> /\ UNCHANGED sigVars

(* client.hooks.get(id) *)
Get(id, fault) ==
    Ran("get", [NoHookArgs EXCEPT !.id = id, !.fault = fault],
        IF http.kind = "sync" THEN HooksService_get(http, id, Net(server, fault))
        ELSE AsyncHooksService_get(http, id, Net(server, fault)))

(* client.hooks.delete(id) *)
Delete(id, fault) ==
    Ran("delete", [NoHookArgs EXCEPT !.id = id, !.fault = fault],
        IF http.kind = "sync" THEN HooksService_delete(http, id, Net(server, fault))
        ELSE AsyncHooksService_delete(http, id, Net(server, fault)))

(* client.close() *)
Close ==
    /\ http' = IF http.kind = "sync" THEN Posthook_close(http) ELSE AsyncPosthook_close(http)
    /\ op' = [NoOp EXCEPT !.name = "close", !.before = server]
    /\ UNCHANGED <<server, iter>> /\ UNCHANGED sigVars

(* leaving `with Posthook(...) as client:` / `async with` *)
Exit ==
    /\ http' = IF http.kind = "sync" THEN Posthook_exit(http) ELSE AsyncPosthook_aexit(http)
    /\ op' = [NoOp EXCEPT !.name = "exit", !.before = server]
    /\ UNCHANGED <<server, iter>> /\ UNCHANGED sigVars

NextHooks ==
    \/ \E id \in HookIds, fault \in Faults : Get(id, fault)
    \/ \E id \in HookIds, fault \in Faults : Delete(id, fault)
    \/ Close
    \/ Exit

SpecHooks == InitHooks /\ [][NextHooks]_vars

---------------------------------------------------------------------------
(* Scheduling.  The arguments a caller can give schedule().                *)

PostAts ==
    {None, S1("2026-03-01T12:00:00Z"), S1(""),
     Datetime("2026-03-01T12:00:00", S1("+00:00")),
     Datetime("2026-03-01T13:00:01", S1("+01:00")),
     Datetime("2026-03-01T12:00:00", None)}
PostAtLocals == {None, S1("2026-03-01T09:00:00")}
Timezones == {None, S1("America/New_York")}
PostIns == {None, S1("5m")}
RetryOverride ==
    [minRetries |-> PyInt(3), delaySecs |-> PyInt(60), strategy |-> S1("fixed"),
     jitter |-> [t |-> "bool", v |-> FALSE],
     backoffFactor |-> None, maxDelaySecs |-> None]
(* schedule() with neither data nor retry_override, and with both *)
Extras ==
    {[data |-> None, retry_override |-> None],
     [data |-> JObj("userId" :> JStr("123")), retry_override |-> RetryOverride]}
ScheduleFaults == {NoFault, StatusFault(429), [t |-> "timeout", status_code |-> 0]}

InitSchedule ==
    /\ SignaturesIdle
    /\ http \in {SyncHttpClient(HttpxClient("caller")), AsyncHttpClient(HttpxClient("caller"))}
    /\ server = HooksStore
    /\ op = NoOp
    /\ iter = NoIter

(* client.hooks.schedule(path, ...) *)
Schedule(a) ==
    Ran("schedule", a,
        IF http.kind = "sync"
        THEN HooksService_schedule(http, a.path, a.data, a.post_at, a.post_at_local,
                 a.timezone, a.post_in, a.retry_override, Net(server, a.fault))
        ELSE AsyncHooksService_schedule(http, a.path, a.data, a.post_at, a.post_at_local,
                 a.timezone, a.post_in, a.retry_override, Net(server, a.fault)))

NextSchedule ==
    \E post_at \in PostAts, post_at_local \in PostAtLocals, timezone \in Timezones,
       post_in \in PostIns, extra \in Extras, fault \in ScheduleFaults :
        Schedule([NoHookArgs EXCEPT !.path = "/webhooks/test", !.data = extra.data,
                     !.post_at = post_at, !.post_at_local = post_at_local,
                     !.timezone = timezone, !.post_in = post_in,
                     !.retry_override = extra.retry_override, !.fault = fault])

SpecSchedule == InitSchedule /\ [][NextSchedule]_vars

---------------------------------------------------------------------------
(* Listing every hook.  The server holds up to MaxHooks hooks in ascending *)
(* postAt order, some of them due at the same instant; the caller makes    *)
(* one list_all generator and runs it turn by turn.                        *)

PostAtTexts ==
    <<"2026-03-01T12:00:00Z", "2026-03-01T13:00:01+01:00", "2026-03-01T12:00:02Z">>
HookStatuses == {"pending", "failed"}

(* the hooks a server can hold: "hook-1", "hook-2", ... in postAt order *)
Stores ==
    UNION {
        { [i \in 1..n |-> [id |-> "hook-" \o ToString(i),
                           postAt |-> PostAtTexts[when[i]], status |-> st[i]]] :
          when \in {w \in [1..n -> 1..Len(PostAtTexts)] :
                       \A i \in 1..n, j \in 1..n : i < j => w[i] <= w[j]},
          st \in [1..n -> HookStatuses] } :
        n \in 0..MaxHooks }
PageSizes == 0..MaxPage
StartCursors == {None, S1("2026-03-01T12:00:00Z")}
StatusFilters == {None, S1("failed")}
ListFaults == {NoFault, StatusFault(500), [t |-> "timeout", status_code |-> 0]}

InitListAll ==
    /\ SignaturesIdle
    /\ http \in {SyncHttpClient(None), AsyncHttpClient(None)}
    /\ server \in Stores
    /\ op = NoOp
    /\ iter = NoIter

(* it = client.hooks.list_all(status=..., post_at_after=..., page_size=...) *)
ListAll(status, post_at_after, page_size) ==
    /\ iter.state = "none"
    /\ iter' = IF http.kind = "sync"
               THEN HooksService_list_all(status, post_at_after, page_size)
               ELSE AsyncHooksService_list_all(status, post_at_after, page_size)
    /\ UNCHANGED <<http, server, op>> /\ UNCHANGED sigVars

(* the generator and the server after a turn *)
Resumed(r) ==
    /\ iter' = r.it
    /\ server' = r.server
    /\ UNCHANGED <<http, op>> /\ UNCHANGED sigVars

(* the consumer drives the generator through one turn of its loop *)
NextPage(fault) ==
    /\ iter.state = "running"
    /\ Resumed(IF http.kind = "sync"
               THEN HooksService_list_all_step(http, iter, Net(server, fault))
               ELSE AsyncHooksService_list_all_step(http, iter, Net(server, fault)))

NextListAll ==
    \/ \E status \in StatusFilters, post_at_after \in StartCursors, page_size \in PageSizes :
          ListAll(status, post_at_after, page_size)
    \/ \E fault \in ListFaults : NextPage(fault)

SpecListAll == InitListAll /\ [][NextListAll]_vars

---------------------------------------------------------------------------
(* What a finished call is observed against: the request, the arguments    *)
(* and the clock value of the call, read independently of its frame        *)

Returned  == pc = "returned"
Cause     == result.out.cause
IsError   == result.out.kind = "SignatureVerificationError"
GotDelivery == Returned /\ result.out.kind = "Delivery"

(* the per-call key when it is a non-empty string, else the instance's key *)
WantedKey ==
    IF call.signing_key # None /\ call.signing_key # S1("")
    THEN call.signing_key ELSE self_key
HasKey    == WantedKey # None /\ WantedKey # S1("")

TsHeader  == _get_header(request.headers, "Posthook-Timestamp")
SigHeader == _get_header(request.headers, "Posthook-Signature")
TsInt     == IntParse(Flat(TsHeader.v))
Tokens    == Split(SigHeader.v)
Presented == BodyBytes(request.body)
Diff      == Abs(call.now - TsInt.v)
Tol       == IF call.tolerance = NotPassed THEN 300 ELSE call.tolerance.v

(* the call has a key, both required headers with a value, an integer timestamp *)
WellFormed == Returned /\ HasKey /\ Truthy(TsHeader) /\ Truthy(SigHeader) /\ TsInt.ok
Fresh      == WellFormed /\ Diff <= Tol
(* some candidate is the sender's signature for the wanted key *)
SomeTokenMatches ==
    \E i \in 1..Len(Tokens) :
        Tokens[i] = _make_signature(Flat(WantedKey.v), TsInt.v, Presented)

(* C1: a Delivery is returned only by a call that resolved a non-empty     *)
(* key, parsed the Posthook-Timestamp header to an integer within the      *)
(* tolerance of the clock, and found a space-separated token of            *)
(* Posthook-Signature equal to the signature over (key, timestamp, body).  *)
C1_DeliveryOnlyVerified ==
    GotDelivery =>
        /\ HasKey
        /\ Truthy(TsHeader) /\ TsInt.ok /\ Diff <= Tol
        /\ Truthy(SigHeader) /\ SomeTokenMatches
        /\ result.out.delivery.timestamp = TsInt.v
        /\ result.out.delivery.body = Presented

C1_Witness ==
    GotDelivery /\ Len(Tokens) > 1 /\ request.body = Bytes(ExampleBody)

(* the body is a JSON object / its four date fields are absent, empty or   *)
(* ISO-8601 texts                                                          *)
BodyIsObject ==
    JsonLoads(Presented).ok /\ JsonLoads(Presented).value.t = "object"
DatesParse ==
    \A f \in {"postAt", "postedAt", "createdAt", "updatedAt"} :
        LET v == DictGet(JsonLoads(Presented).value, f, JStr(""))
        IN  v.t = "str" /\ Flat(v.v) \in {"", "2026-03-01T12:00:00Z", "2026-03-01T12:00:00+00:00"}
CorrectlySigned ==
    Fresh /\ SigHeader.v = <<_make_signature(Flat(WantedKey.v), TsInt.v, Presented)>>

C3_TamperedBodyRejected ==
    (Fresh /\ \A i \in 1..Len(Tokens) :
                 \E b \in ByteBodies \ {Presented} :
                     Tokens[i] = _make_signature(Flat(WantedKey.v), TsInt.v, b))
    => /\ IsError /\ Cause = "SignatureMismatch"
       /\ result.out.message = "Signature verification failed"

C3_Witness ==
    /\ Fresh /\ Presented = TamperedBody
    /\ SigHeader.v = <<_make_signature(Flat(WantedKey.v), TsInt.v, ExampleBody)>>
    /\ Cause = "SignatureMismatch"

(* C4: a call that reaches the freshness check passes it when              *)
(* |now - timestamp| = tolerance and fails with TimestampExpired when      *)
(* |now - timestamp| = tolerance + 1, for timestamps on either side of the *)
(* clock; the tolerance is 300 unless the call passes one.                 *)
C4_FreshnessInclusive ==
    WellFormed =>
        /\ (Diff = Tol => Cause # "TimestampExpired")
        /\ (Diff = Tol + 1 => IsError /\ Cause = "TimestampExpired")
        /\ (Cause = "TimestampExpired" <=> Diff > Tol)

C4_Witness ==
    /\ WellFormed /\ call.tolerance = NotPassed /\ Diff = 300
    /\ TsInt.v > call.now /\ GotDelivery

(* C5: a fresh call passes signature matching exactly when some token of   *)
(* the Posthook-Signature value, split on single spaces, equals the        *)
(* expected signature for the resolved key, wherever that token stands.    *)
C5_AnyTokenMatches ==
    Fresh => (Cause # "SignatureMismatch" <=> SomeTokenMatches)

C5_Witness ==
    /\ Fresh /\ GotDelivery /\ Len(Tokens) >= 4
    /\ \A i \in 1..3 : Tokens[i] # _make_signature(Flat(WantedKey.v), TsInt.v, Presented)

(* C6: a call with no per-call key and no instance key, or only empty      *)
(* ones, fails with NoSigningKey whatever the body and the headers, and    *)
(* no header lookup ran in it.                                             *)
C6_NoKeyFailsFirst ==
    (Returned /\ ~HasKey) =>
        /\ IsError /\ Cause = "NoSigningKey"
        /\ result.trace = <<"resolve_key">>

C6_Witness ==
    /\ Returned /\ ~HasKey /\ Cause = "NoSigningKey"
    /\ self_key = S1("") /\ call.signing_key = None
    /\ ~Truthy(TsHeader) /\ Truthy(SigHeader)

(* C7: the key a call verifies with is its signing_key argument when that  *)
(* is given (a non-empty string), else the instance's configured key: the  *)
(* call passes signature matching exactly for the signatures of that key,  *)
(* so a delivery signed with the per-call key is accepted by an instance   *)
(* configured with another key.                                            *)
C7_PerCallKeyOverrides ==
    (Returned /\ HasKey) =>
        /\ result.key = Flat(WantedKey.v)
        /\ (call.signing_key = S1(NewKey) => result.key = NewKey)
        /\ (call.signing_key \in {None, S1("")} => result.key = Flat(self_key.v))
        /\ (Fresh /\ SigHeader.v = <<_make_signature(NewKey, TsInt.v, Presented)>>
              => (Cause # "SignatureMismatch" <=> call.signing_key = S1(NewKey)))

C7_Witness ==
    /\ GotDelivery /\ self_key = S1(OldKey) /\ call.signing_key = S1(NewKey)
    /\ SigHeader.v = <<_make_signature(NewKey, TsInt.v, Presented)>>

(* C8 as stated: a call with a key, a Posthook-Timestamp value that is not *)
(* an integer and no Posthook-Signature header fails with                  *)
(* InvalidTimestamp.                                                       *)
C8_Original ==
    (Returned /\ HasKey /\ Truthy(TsHeader) /\ ~TsInt.ok /\ ~Truthy(SigHeader))
    => Cause = "InvalidTimestamp"

(* C8, amended: both required headers are looked up and checked for        *)
(* presence before the timestamp is parsed as an integer: a call with a    *)
(* key, a non-integer Posthook-Timestamp and no Posthook-Signature fails   *)
(* with MissingSignature, and InvalidTimestamp is reported only when both  *)
(* headers are present.                                                    *)
C8_PresenceBeforeParse ==
    (Returned /\ HasKey /\ Truthy(TsHeader)) =>
        /\ (~Truthy(SigHeader) => IsError /\ Cause = "MissingSignature")
        /\ (Truthy(SigHeader) /\ ~TsInt.ok => IsError /\ Cause = "InvalidTimestamp")
        /\ (Cause = "InvalidTimestamp" =>
               result.trace = <<"resolve_key", "hook_id", "timestamp_header",
                                "signature_header", "parse_timestamp">>)

C8_Witness ==
    /\ Returned /\ HasKey /\ Truthy(TsHeader) /\ Flat(TsHeader.v) = "not-a-number"
    /\ SigHeader = None /\ Cause = "MissingSignature"

(* C9: the body is decoded only after a candidate signature matched: a     *)
(* fresh call whose signatures do not match fails with SignatureMismatch   *)
(* also when the body is malformed JSON, and PayloadDecodeError is         *)
(* reported only for a correctly signed body.                              *)
C9_MatchBeforeDecode ==
    /\ (Fresh /\ ~SomeTokenMatches) => (IsError /\ Cause = "SignatureMismatch")
    /\ (Returned /\ Cause = "PayloadDecodeError") =>
           (Fresh /\ SomeTokenMatches /\ ~JsonLoads(Presented).ok)
    /\ (Fresh /\ SomeTokenMatches /\ ~JsonLoads(Presented).ok) =>
           (IsError /\ Cause = "PayloadDecodeError")

C9_Witness ==
    /\ Fresh /\ ~SomeTokenMatches /\ ~JsonLoads(Presented).ok
    /\ Cause = "SignatureMismatch"

(* C10: the freshness check runs before signature comparison: a call with  *)
(* a key, both headers and an integer timestamp beyond the tolerance fails *)
(* with TimestampExpired whatever the signature value and the body are,    *)
(* and SignatureMismatch is reported only within the tolerance.            *)
C10_FreshnessBeforeMatch ==
    /\ (WellFormed /\ Diff > Tol) =>
           /\ IsError /\ Cause = "TimestampExpired"
           /\ result.out.message =
                  "Timestamp too old: " \o ToString(Diff) \o "s difference exceeds "
                  \o ToString(Tol) \o "s tolerance"
    /\ (Returned /\ Cause = "SignatureMismatch") => Fresh

C10_Witness ==
    /\ WellFormed /\ Diff > Tol /\ ~SomeTokenMatches
    /\ Cause = "TimestampExpired" /\ ~JsonLoads(Presented).ok

(* C11: every call ends with a Delivery or with the one error kind         *)
(* SignatureVerificationError, also for a correctly signed, fresh body     *)
(* that is JSON but no object, or whose date fields are no date texts.     *)
C11_SingleErrorKind ==
    Returned => result.out.kind \in {"Delivery", "SignatureVerificationError"}

---------------------------------------------------------------------------
(* Comparing a finished call with the same call on other arguments *)

IdHeader == _get_header(request.headers, "Posthook-Id")

(* the arguments of the finished call *)
CallArgs ==
    [self_key |-> self_key, body |-> request.body, headers |-> request.headers,
     signing_key |-> call.signing_key, tolerance |-> call.tolerance,
     now |-> call.now]

(* the header mapping without the entries named `name` in any casing *)
DropHeader(headers, name) ==
    SelectSeq(headers, LAMBDA e : Lower(e[1]) # Lower(name))

(* what a call ended with, apart from the Delivery's hook_id *)
OutcomeLessId(r) ==
    IF r.out.kind = "Delivery"
    THEN [r.out EXCEPT !.delivery.hook_id = ""]
    ELSE r.out

(* C12: with a resolvable key, a request without Posthook-Id ends as the   *)
(* same request with it does, its Delivery having hook_id "" ; a request   *)
(* without Posthook-Timestamp fails with MissingTimestamp; a request with  *)
(* Posthook-Timestamp but without Posthook-Signature fails with            *)
(* MissingSignature.                                                       *)
C12_MissingHeaders ==
    (Returned /\ HasKey) =>
        /\ (IdHeader = None /\ GotDelivery => result.out.delivery.hook_id = "")
        /\ (TsHeader = None => IsError /\ Cause = "MissingTimestamp")
        /\ (Truthy(TsHeader) /\ SigHeader = None
              => IsError /\ Cause = "MissingSignature")
        /\ OutcomeLessId(result) =
              OutcomeLessId(parse_delivery(
                  [CallArgs EXCEPT !.headers = DropHeader(@, "Posthook-Id")]))
        /\ (IdHeader = None =>
              OutcomeLessId(result) =
                OutcomeLessId(parse_delivery(
                  [CallArgs EXCEPT !.headers = IdEntry \o @])))

C12_Witness ==
    /\ GotDelivery /\ IdHeader = None /\ result.out.delivery.hook_id = ""
    /\ Len(request.headers) = 2

(* the letter-casings of a header name *)
Casings == {"canonical", "lower", "upper", "mixed"}
Recase(k, style) ==
    LET of(id, ts, sg) ==
            CASE Lower(k) = "posthook-id"        -> id
              [] Lower(k) = "posthook-timestamp" -> ts
              [] Lower(k) = "posthook-signature" -> sg
              [] OTHER                           -> k
    IN  CASE style = "canonical" ->
                of("Posthook-Id", "Posthook-Timestamp", "Posthook-Signature")
          [] style = "lower" ->
                of("posthook-id", "posthook-timestamp", "posthook-signature")
          [] style = "upper" ->
                of("POSTHOOK-ID", "POSTHOOK-TIMESTAMP", "POSTHOOK-SIGNATURE")
          [] style = "mixed" ->
                of("PostHook-ID", "PostHook-TimeStamp", "PostHook-SIGNATURE")

(* the mapping with the key of header `name` written in `style` *)
RecaseHeader(headers, name, style) ==
    [i \in 1..Len(headers) |->
        IF Lower(headers[i][1]) = Lower(name)
        THEN <<Recase(headers[i][1], style), headers[i][2]>>
        ELSE headers[i]]

(* no two keys of the mapping are equal ignoring case *)
OneKeyPerName(headers) ==
    \A i, j \in 1..Len(headers) :
        Lower(headers[i][1]) = Lower(headers[j][1]) => i = j

(* the call has returned and the clock has not moved since it read it *)
JustReturned == Returned /\ now = call.now

(* C13: for each of the three headers, writing its key in any              *)
(* letter-casing (canonical, lowercase, uppercase, mixed) leaves the       *)
(* outcome of the call what it is with the canonical casing.               *)
C13_CaseInsensitive ==
    (JustReturned /\ OneKeyPerName(request.headers)) =>
        LET names == <<"Posthook-Id", "Posthook-Timestamp", "Posthook-Signature">>
            canon == RecaseHeader(RecaseHeader(RecaseHeader(request.headers,
                         names[1], "canonical"), names[2], "canonical"),
                         names[3], "canonical")
        IN  /\ parse_delivery([CallArgs EXCEPT !.headers = canon]).out = result.out
            /\ \A n \in 1..3 : \A style \in Casings \ {"canonical"} :
                   \/ \A i \in 1..Len(canon) : canon[i][1] # names[n]
                   \/ parse_delivery([CallArgs EXCEPT
                          !.headers = RecaseHeader(canon, names[n], style)]).out
                      = result.out

C13_Witness ==
    /\ GotDelivery /\ OneKeyPerName(request.headers)
    /\ \E i \in 1..Len(request.headers) :
           request.headers[i][1] = "POSTHOOK-SIGNATURE"
    /\ result.out.delivery.hook_id = "hook-123"

---------------------------------------------------------------------------
(* Header lookup, read off the mapping itself *)

(* the entry's value is a scalar or a non-empty sequence *)
Carries(val) == val # None /\ ~(val.t = "list" /\ val.v = <<>>)
(* the scalar of a value that is carried: v for v and for [v] *)
ScalarOf(val) == IF val.t = "list" THEN val.v[1] ELSE val
(* the positions of the keys equal to `name` ignoring case *)
KeysFor(headers, name) ==
    {i \in 1..Len(headers) : Lower(headers[i][1]) = Lower(name)}

(* C14: _get_header returns the value under the exact-case key if there is *)
(* one, otherwise the value under the first key equal to the name ignoring *)
(* case, otherwise not-present; [v] reads as v; and the result is          *)
(* not-present exactly when no key equal to the name ignoring case carries *)
(* a value.                                                                *)
C14_GetHeader ==
    (Returned /\ HasKey) =>
        \A name \in {"Posthook-Id", "Posthook-Timestamp", "Posthook-Signature"} :
            LET h     == request.headers
                got   == _get_header(h, name)
                keys  == KeysFor(h, name)
                exact == {i \in keys : h[i][1] = name}
                first == CHOOSE i \in keys : \A j \in keys : i <= j
            IN  /\ (\E i \in exact : Carries(h[i][2]))
                      => got = ScalarOf(h[CHOOSE i \in exact : TRUE][2])
                /\ (exact = {} /\ keys # {} /\ Carries(h[first][2]))
                      => got = ScalarOf(h[first][2])
                /\ (got = None <=> \A i \in keys : ~Carries(h[i][2]))

---------------------------------------------------------------------------
(* Concurrent calls on one instance *)

(* the thread's call has returned or raised *)
Done(t) == threads[t].pos > 0 /\ threads[t].env.out # Running

(* C15: no statement of a call changes the instance's configured key, and  *)
(* under every interleaving of the calls of two threads each call ends as  *)
(* the same call does when run alone with its arguments, the key the       *)
(* instance had when it was entered and the clock value it read.           *)
C15_Stateless ==
    /\ [][self_key' = self_key]_vars
    /\ [](\A t \in Threads :
            Done(t) => threads[t].env = parse_delivery(threads[t].a))

C15_Witness ==
    /\ Done("t1") /\ threads["t1"].env.out.kind = "Delivery"
    /\ threads["t1"].a.signing_key = S1(NewKey) /\ threads["t1"].a.tolerance = PyInt(0)
    /\ threads["t2"].pos = 7 /\ threads["t2"].a.signing_key = None
    /\ threads["t2"].a.tolerance = NotPassed /\ threads["t2"].a.now > threads["t1"].a.now

---------------------------------------------------------------------------
(* Construction of the verifier *)

Constructed == made.via # "none"
IsClient    == made.via \in {"Posthook", "AsyncPosthook"}
(* the environment variable as it was when the constructor ran *)
EnvKeyThen  == made.environ["POSTHOOK_SIGNING_KEY"]
(* the client constructor found an API key *)
ApiKeyFound ==
    Truthy(made.api_key) \/ Truthy(made.environ["POSTHOOK_API_KEY"])
(* no signing key was passed and POSTHOOK_SIGNING_KEY was not set *)
NoKeyGiven ==
    /\ Constructed /\ made.signing_key = None /\ EnvKeyThen = None
    /\ (IsClient => ApiKeyFound)

(* C16 as stated: with no signing key passed and POSTHOOK_SIGNING_KEY not  *)
(* set, constructing a verifier through any of the four constructors       *)
(* raises nothing.                                                         *)
C16_Original ==
    NoKeyGiven => made.ok

(* C16, amended: with no signing key passed and POSTHOOK_SIGNING_KEY not   *)
(* set, Posthook(), AsyncPosthook() and SignaturesService() construct      *)
(* without error and a parse_delivery call without a per-call key then     *)
(* fails with NoSigningKey, while create_signatures() raises ValueError at *)
(* construction.                                                           *)
C16_AbsenceReportedAtCall ==
    NoKeyGiven =>
        /\ made.via \in {"SignaturesService", "Posthook", "AsyncPosthook"} =>
              /\ made.ok /\ self_key = None
              /\ (Returned /\ call.signing_key = None
                    => IsError /\ Cause = "NoSigningKey")
              /\ (Returned /\ call.signing_key = S1(NewKey)
                    => Cause # "NoSigningKey")
        /\ made.via = "create_signatures" =>
              ~made.ok /\ made.exc = "ValueError"

C16_Witness ==
    /\ NoKeyGiven /\ made.via = "Posthook" /\ made.ok
    /\ Returned /\ call.signing_key = None /\ Cause = "NoSigningKey"
    /\ environ["POSTHOOK_SIGNING_KEY"] = S1(OldKey)

(* C17: create_signatures(signing_key) gives a service holding the         *)
(* explicit key when that is non-empty, whatever POSTHOOK_SIGNING_KEY is;  *)
(* else the variable's value when that is non-empty; else it raises        *)
(* ValueError 'No signing key provided ...'.  No call on a service it      *)
(* returned fails with NoSigningKey.                                       *)
C17_CreateSignatures ==
    made.via = "create_signatures" =>
        /\ Truthy(made.signing_key) => made.ok /\ self_key = made.signing_key
        /\ (~Truthy(made.signing_key) /\ Truthy(EnvKeyThen))
              => made.ok /\ self_key = EnvKeyThen
        /\ (~Truthy(made.signing_key) /\ ~Truthy(EnvKeyThen))
              => /\ ~made.ok /\ made.exc = "ValueError"
                 /\ made.message = "No signing key provided. Pass signing_key to create_signatures() or set the POSTHOOK_SIGNING_KEY environment variable."
        /\ Returned => Cause # "NoSigningKey"

C17_Witness ==
    /\ made.via = "create_signatures" /\ made.signing_key = S1("")
    /\ EnvKeyThen = S1(OldKey) /\ environ["POSTHOOK_SIGNING_KEY"] = None
    /\ GotDelivery /\ call.signing_key = None /\ result.key = OldKey

(* C18: the key of a client's verifier is fixed when Posthook or           *)
(* AsyncPosthook is constructed: the signing_key argument when that is a   *)
(* non-empty string, else the value POSTHOOK_SIGNING_KEY had then; no      *)
(* later step, a change of the variable included, changes it, and it is    *)
(* the key client.signatures.parse_delivery verifies with when no per-call *)
(* key is passed.                                                          *)
C18_ResolvedOnce ==
    /\ []((IsClient /\ made.ok) =>
            /\ self_key = (IF Truthy(made.signing_key) THEN made.signing_key
                           ELSE EnvKeyThen)
            /\ (Returned /\ ~Truthy(call.signing_key) /\ Truthy(self_key)
                  => result.key = Flat(self_key.v)))
    /\ [][Constructed => self_key' = self_key]_vars

C18_Witness ==
    /\ made.via = "AsyncPosthook" /\ made.ok /\ made.signing_key = None
    /\ EnvKeyThen = S1(OldKey) /\ environ["POSTHOOK_SIGNING_KEY"] = S1("")
    /\ GotDelivery /\ call.signing_key = None /\ result.key = OldKey

---------------------------------------------------------------------------
(* The Delivery of a verified request *)

(* the Delivery attribute holding the payload's date field *)
DateAttr == [postAt |-> "post_at", postedAt |-> "posted_at",
             createdAt |-> "created_at", updatedAt |-> "updated_at"]

(* C19: the Delivery of a verified request takes path from the payload's   *)
(* 'path' ("" when missing) and data from its 'data' (null when missing);  *)
(* each of post_at, posted_at, created_at, updated_at is the minimum       *)
(* timestamp when its field is missing or "" and the parsed date           *)
(* otherwise; hook_id is the Posthook-Id value and timestamp the parsed    *)
(* Posthook-Timestamp.                                                     *)
C19_DeliveryFields ==
    GotDelivery =>
        LET p == JsonLoads(Presented).value.fields
            d == result.out.delivery
        IN  /\ d.path = (IF "path" \in DOMAIN p THEN p["path"] ELSE JStr(""))
            /\ d.data = (IF "data" \in DOMAIN p THEN p["data"] ELSE None)
            /\ \A f \in DOMAIN DateAttr :
                   IF f \notin DOMAIN p \/ p[f] = JStr("")
                   THEN d[DateAttr[f]] = DatetimeMin
                   ELSE /\ p[f] = JStr("2026-03-01T12:00:00Z")
                        /\ d[DateAttr[f]] = "2026-03-01T12:00:00+00:00"
            /\ d.hook_id = (IF IdHeader = None THEN "" ELSE Flat(IdHeader.v))
            /\ d.timestamp = TsInt.v

C19_Witness ==
    /\ GotDelivery /\ Presented = EmptyObjectBody
    /\ result.out.delivery.path = JStr("") /\ result.out.delivery.data = None
    /\ result.out.delivery.updated_at = DatetimeMin
    /\ result.out.delivery.hook_id = "hook-123"

---------------------------------------------------------------------------
(* Textual bodies *)

(* the UTF-8 bytes of the request's body, written out for the two texts of *)
(* the model; a bytes body is its own bytes                                *)
EncodedBody ==
    CASE request.body.t = "bytes" -> request.body.v
      [] request.body = Text(NonAsciiText) -> NonAsciiBody
      [] request.body = Text(EmptyObjectBody) -> EmptyObjectBody

(* C20: a call on a textual body ends as the same call on the body's UTF-8 *)
(* bytes does; the expected signature is computed over those bytes, and    *)
(* the Delivery's body is those bytes (for a bytes body, the bytes passed).*)
C20_TextBodyAsUtf8 ==
    Returned =>
        /\ result = parse_delivery([CallArgs EXCEPT !.body = Bytes(EncodedBody)])
        /\ ("compute_signature" \in {result.trace[i] : i \in 1..Len(result.trace)}
              => result.expected_sig =
                   _make_signature(result.key, result.timestamp, EncodedBody))
        /\ (GotDelivery => result.out.delivery.body = EncodedBody)

C20_Witness ==
    /\ GotDelivery /\ request.body = Text(NonAsciiText)
    /\ result.out.delivery.body = NonAsciiBody
    /\ result.out.delivery.path = JStr("/caf<U+E9>")

(* C21: the expected signature is "v1," followed by the HMAC-SHA256 digest, *)
(* under the resolved key, of the decimal timestamp, "." and the body      *)
(* bytes; feeding "<timestamp>." and then the body to the mac gives the    *)
(* digest of their concatenation fed in one piece.                         *)
C21_SignatureFormat ==
    ("compute_signature" \in {result.trace[i] : i \in 1..Len(result.trace)}) =>
        LET whole == ToString(result.timestamp) \o "." \o EncodedBody
            once  == HexDigest(HmacUpdate(HmacNew(result.key), whole))
        IN  /\ result.expected_sig = "v1," \o HmacSha256Hex(result.key, whole)
            /\ result.expected_sig = "v1," \o once

C21_Witness ==
    /\ GotDelivery /\ request.body = Bytes(ExampleBody)
    /\ result.timestamp = Epoch /\ result.key = NewKey
    /\ result.expected_sig =
         "v1," \o HmacSha256Hex(NewKey, ToString(Epoch) \o "." \o ExampleBody)

(* every token of the Posthook-Signature value is the sender's signature,  *)
(* under some key, over timestamp T and the presented body                 *)
SignedFor(T) ==
    /\ Tokens # <<>>
    /\ \A i \in 1..Len(Tokens) :
          \E key \in {OldKey, NewKey} : Tokens[i] = _make_signature(key, T, Presented)

(* C27: a fresh call whose Posthook-Signature tokens were all computed for *)
(* a timestamp T fails with SignatureMismatch when the Posthook-Timestamp  *)
(* it presents is another integer than T.                                  *)
C27_BoundToTimestamp ==
    (Fresh /\ Tokens # <<>>) =>
        \A T \in {TsInt.v - 1, TsInt.v + 1} \cup (Timestamps \ {TsInt.v}) :
            SignedFor(T) => IsError /\ Cause = "SignatureMismatch"

C27_Witness ==
    /\ Fresh /\ SignedFor(TsInt.v + 1) /\ Len(Tokens) = 2
    /\ Tokens[2] = _make_signature(Flat(WantedKey.v), TsInt.v + 1, Presented)
    /\ Abs(call.now - (TsInt.v + 1)) <= Tol
    /\ IsError /\ Cause = "SignatureMismatch"

---------------------------------------------------------------------------
(* What a finished hooks operation is observed against: its arguments, the *)
(* requests that reached the transport, the server's hooks before it       *)

(* how many of post_at, post_at_local, post_in the caller gave *)
ModesGiven ==
    Cardinality({i \in 1..3 : <<op.a.post_at, op.a.post_at_local, op.a.post_in>>[i] # None})
NaivePostAt == op.a.post_at.t = "datetime" /\ op.a.post_at.tzinfo = None
ModeKeys == {"postAt", "postAtLocal", "postIn"}
RaisedValueError(text) ==
    ~op.out.ok /\ op.out.exc = "ValueError" /\ op.out.message = S1(text)

(* C22: schedule sends a request only when exactly one of post_at,         *)
(* post_at_local, post_in is given and a datetime post_at is aware: with   *)
(* none it raises ValueError "Exactly one scheduling mode ...", with more  *)
(* than one ValueError "Only one scheduling mode ...", with a naive        *)
(* datetime ValueError "... timezone-aware ..."; in each of these nothing  *)
(* reaches the transport; otherwise one POST is sent whose body holds      *)
(* exactly one of postAt, postAtLocal, postIn, the one that was given.     *)
C22_ScheduleModes ==
    op.name = "schedule" =>
        /\ ModesGiven = 0 =>
              /\ RaisedValueError("Exactly one scheduling mode is required: post_at, post_at_local, or post_in")
              /\ op.sent = <<>>
        /\ ModesGiven > 1 =>
              /\ RaisedValueError("Only one scheduling mode allowed: post_at, post_at_local, or post_in")
              /\ op.sent = <<>>
        /\ (ModesGiven = 1 /\ NaivePostAt) =>
              /\ RaisedValueError("post_at datetime must be timezone-aware. Use datetime.now(timezone.utc) or datetime(..., tzinfo=timezone.utc)")
              /\ op.sent = <<>>
        /\ (ModesGiven = 1 /\ ~NaivePostAt) =>
              /\ Len(op.sent) = 1
              /\ op.sent[1].method = "POST" /\ op.sent[1].path = "/v1/hooks"
              /\ LET body == op.sent[1].json.fields
                 IN  /\ Cardinality(DOMAIN body \cap ModeKeys) = 1
                     /\ "postAt" \in DOMAIN body <=> op.a.post_at # None
                     /\ "postAtLocal" \in DOMAIN body <=> op.a.post_at_local # None
                     /\ "postIn" \in DOMAIN body <=> op.a.post_in # None
        /\ op.out.exc = "ValueError" => op.sent = <<>> /\ server = op.before

C22_Witness ==
    /\ op.name = "schedule" /\ http.kind = "async"
    /\ op.a.post_in # None /\ op.a.post_at = S1("2026-03-01T12:00:00Z")
    /\ op.a.fault = NoFault
    /\ RaisedValueError("Only one scheduling mode allowed: post_at, post_at_local, or post_in")
    /\ op.sent = <<>>

---------------------------------------------------------------------------
(* What a list_all generator is observed against: the requests it sent,    *)
(* the pages it received, the hooks it yielded, the server's hooks         *)

RECURSIVE Concat(_)
(* the pages, one after another *)
Concat(pages) == IF pages = <<>> THEN <<>> ELSE Head(pages) \o Concat(Tail(pages))

(* the postAt the server holds for a yielded hook *)
StoredPostAt(hook) ==
    LET i == CHOOSE k \in 1..Len(server) : JStr(server[k].id) = hook.id
    IN  server[i].postAt
(* the cursor a request carries, None when it carries none *)
CursorSent(wire) ==
    IF "postAtAfter" \in DOMAIN wire.params THEN wire.params["postAtAfter"] ELSE None
(* the hooks the server holds that the call asks for, in the server's order *)
Matching ==
    SelectSeq(server, LAMBDA h :
        /\ (iter.status # None => h.status = Flat(iter.status.v))
        /\ (iter.post_at_after # None =>
               InstantOf(h.postAt) > InstantOf(Flat(iter.post_at_after.v))))
Ids(hooks) == [i \in 1..Len(hooks) |-> hooks[i].id]

(* C23: every request of list_all is GET /v1/hooks with limit=page_size,   *)
(* sortBy=postAt, sortOrder=ASC and the caller's status; the first carries *)
(* the caller's post_at_after as cursor, each later one the post_at of the *)
(* last hook of the page before; the hooks yielded are those of the pages  *)
(* in the order received; a request follows only a page of page_size       *)
(* hooks, and the generator ends at the first shorter page, so k full      *)
(* pages and a short one cost k + 1 requests.                              *)
C23_CursorPaging ==
    LET n == Len(iter.sent)
        k == Len(iter.pages)
    IN  iter.state # "none" =>
        /\ \A i \in 1..n :
              /\ iter.sent[i].method = "GET" /\ iter.sent[i].path = "/v1/hooks"
              /\ iter.sent[i].params["limit"] = PyInt(iter.page_size)
              /\ iter.sent[i].params["sortBy"] = S1("postAt")
              /\ iter.sent[i].params["sortOrder"] = S1("ASC")
              /\ DOMAIN iter.sent[i].params \subseteq
                    {"limit", "sortBy", "sortOrder", "postAtAfter", "status"}
              /\ "status" \in DOMAIN iter.sent[i].params <=> iter.status # None
        /\ n >= 1 => CursorSent(iter.sent[1]) = iter.post_at_after
        /\ \A i \in 2..n :
              /\ iter.pages[i - 1] # <<>>
              /\ CursorSent(iter.sent[i]) # None
              /\ InstantOf(Flat(CursorSent(iter.sent[i]).v)) =
                    InstantOf(StoredPostAt(iter.pages[i - 1][Len(iter.pages[i - 1])]))
        /\ iter.state \in {"running", "ended"} =>
              /\ iter.yielded = Concat(iter.pages)
              /\ n = k
        /\ \A i \in 1..(k - 1) : Len(iter.pages[i]) = iter.page_size
        /\ iter.state = "ended" => k >= 1 /\ Len(iter.pages[k]) < iter.page_size
        /\ (iter.state = "running" /\ k >= 1) => Len(iter.pages[k]) = iter.page_size

C23_Witness ==
    /\ iter.state = "ended" /\ iter.page_size = 1 /\ http.kind = "async"
    /\ Len(iter.sent) = 3 /\ Len(iter.yielded) = 2
    /\ CursorSent(iter.sent[1]) = None
    /\ CursorSent(iter.sent[2]) = S1("2026-03-01T12:00:00+00:00")
    /\ CursorSent(iter.sent[3]) = S1("2026-03-01T12:00:01+00:00")

(* C28: against a server answering each request with the first `limit`     *)
(* hooks whose postAt is strictly after the cursor, a list_all with        *)
(* page_size >= 1 that ends has yielded every hook the server holds for    *)
(* the call exactly once, in the server's order, also when hooks on both   *)
(* sides of a page boundary share one postAt.                              *)
C28_EveryHookOnce ==
    (iter.state = "ended" /\ iter.page_size >= 1) =>
        Ids(iter.yielded) = [i \in 1..Len(Matching) |-> JStr(Matching[i].id)]

(* C29: whatever page_size the caller passed, once a list request returned *)
(* an empty page the generator has ended and sent nothing after it.        *)
C29_EndsOnEmptyPage ==
    (iter.pages # <<>> /\ iter.pages[Len(iter.pages)] = <<>>) =>
        /\ iter.state = "ended"
        /\ Len(iter.sent) = Len(iter.pages)

---------------------------------------------------------------------------
(* Claims about get, delete and close (SpecHooks)                          *)

(* the hooks of a store that the id names *)
Named(store, id) == {i \in 1..Len(store) : store[i].id = Flat(id.v)}
(* the store without the hooks the id names *)
Without(store, id) == SelectSeq(store, LAMBDA h : h.id # Flat(id.v))
(* the last operation was `name` with a non-empty id and its request       *)
(* reached the transport                                                   *)
Requested(name) == op.name = name /\ op.a.id # S1("") /\ op.sent # <<>>

(* C24: hooks.delete, sync and async, with a non-empty id returns normally *)
(* both when the server deletes the hook and when the answer is 404 (the   *)
(* hook is already gone, or a 404 comes back instead), so no delete in any *)
(* sequence of deletes raises NotFoundError; every other status >= 400     *)
(* raises an error carrying that status, and a timeout or a network        *)
(* failure raises PosthookConnectionError.                                 *)
C24_DeleteIdempotent ==
    (op.name = "delete" /\ op.a.id # S1("")) =>
        /\ op.out.exc # "NotFoundError"
        /\ op.sent # <<>> =>
            /\ Len(op.sent) = 1
            /\ op.sent[1].method = "DELETE"
            /\ CASE op.a.fault.t = "none" ->
                        op.out = Gave(None) /\ server = Without(op.before, op.a.id)
                 [] op.a.fault = StatusFault(404) ->
                        op.out = Gave(None) /\ server = op.before
                 [] op.a.fault.t = "status" /\ op.a.fault.status_code # 404 ->
                        /\ ~op.out.ok
                        /\ op.out.status_code = PyInt(op.a.fault.status_code)
                        /\ server = op.before
                 [] op.a.fault.t = "html" ->
                        op.out.exc = "InternalServerError" /\ op.out.status_code = PyInt(502)
                 [] op.a.fault.t \in {"timeout", "late", "network"} ->
                        op.out.exc = "PosthookConnectionError"

(* a delete of a hook that an earlier delete removed: the server answers   *)
(* 404 and the call returns normally                                       *)
C24_Witness ==
    /\ Requested("delete")
    /\ op.a.id = S1("hook-1")
    /\ op.a.fault = NoFault
    /\ Named(op.before, op.a.id) = {}
    /\ op.out = Gave(None)
    /\ server = op.before

(* C25: hooks.get and hooks.delete called with an empty id raise           *)
(* ValueError('hook id is required') before any HTTP request: nothing      *)
(* reaches the transport and the server's hooks are as before, whatever    *)
(* the server or the network would have answered, and whether or not the   *)
(* client is closed.                                                       *)
C25_EmptyIdNoRequest ==
    (op.name \in {"get", "delete"} /\ op.a.id = S1("")) =>
        /\ op.out = ValueError("hook id is required")
        /\ op.sent = <<>>
        /\ server = op.before

(* get('') on an open client whose request, had it been sent, would have   *)
(* been answered                                                           *)
C25_Witness ==
    /\ op.name = "get"
    /\ op.a.id = S1("")
    /\ op.a.fault = NoFault
    /\ ~http.client.closed
    /\ http.kind = "sync"
    /\ op.out.exc = "ValueError"
    /\ op.sent = <<>>

(* the status of the response the last operation's request got: the status *)
(* answered in the server's place, 502 for the non-JSON body, the server's *)
(* own 404 for a hook it does not hold, 200 otherwise (0: no response)     *)
RepliedStatus ==
    CASE op.a.fault.t = "status" -> op.a.fault.status_code
      [] op.a.fault.t = "html"   -> 502
      [] op.a.fault.t = "none"   -> IF Named(op.before, op.a.id) = {} THEN 404 ELSE 200
      [] OTHER                   -> 0
(* the error class and code the documentation gives for a status *)
DocumentedError(s) ==
    CASE s = 400 -> <<"BadRequestError", "bad_request">>
      [] s = 401 -> <<"AuthenticationError", "authentication_error">>
      [] s = 403 -> <<"ForbiddenError", "forbidden">>
      [] s = 404 -> <<"NotFoundError", "not_found">>
      [] s = 413 -> <<"PayloadTooLargeError", "payload_too_large">>
      [] s = 429 -> <<"RateLimitError", "rate_limit_exceeded">>
      [] s >= 500 -> <<"InternalServerError", "internal_error">>
      [] OTHER   -> <<"PosthookError", "unknown_error">>

(* C26: a response with status >= 400 makes request() raise the one error  *)
(* class fixed by the status: 400 BadRequestError, 401 AuthenticationError,*)
(* 403 ForbiddenError, 404 NotFoundError, 413 PayloadTooLargeError, 429    *)
(* RateLimitError, >= 500 InternalServerError, anything else PosthookError *)
(* with code 'unknown_error'; the error carries the response's status.     *)
(* Observed on get, which raises what request() raised.                    *)
C26_StatusToErrorClass ==
    (Requested("get") /\ RepliedStatus >= 400) =>
        /\ ~op.out.ok
        /\ op.out.exc = DocumentedError(RepliedStatus)[1]
        /\ op.out.code = DocumentedError(RepliedStatus)[2]
        /\ op.out.status_code = PyInt(RepliedStatus)

(* a 429 became RateLimitError, on a request that reached the transport *)
C26_Witness ==
    /\ Requested("get")
    /\ op.a.fault = StatusFault(429)
    /\ op.out.exc = "RateLimitError"
    /\ op.out.status_code = PyInt(429)
    /\ op.out.message = JStr("refused")

(* C30: who owns the HTTP client is fixed when the SDK client is made      *)
(* (_owns_client is true exactly for a client the SDK created), and        *)
(* close(), on Posthook and AsyncPosthook alike, and leaving the (async)   *)
(* context manager close the httpx client only in that case: after them an *)
(* SDK-made client is closed, and a client the caller supplied is not      *)
(* closed in any sequence of requests, close calls and exits.              *)
C30_CloseOnlyOwnClient ==
    /\ http.owns_client <=> http.client.by = "sdk"
    /\ http.client.by = "caller" => ~http.client.closed
    /\ op.name \in {"close", "exit"} => (http.client.closed <=> http.owns_client)

(* an AsyncPosthook made with http_client= left its `async with` block and *)
(* the caller's client is still open                                       *)
C30_Witness ==
    /\ op.name = "exit"
    /\ http.kind = "async"
    /\ http.client.by = "caller"
    /\ ~http.owns_client
    /\ ~http.client.closed
====
